---- MODULE Spec2Model ----
(***************************************************************************)
(* Verification model of the indy-news aggregation core:                   *)
(*   - the TTL memoization cache wrapped around x_search, youtube_search   *)
(*     and youtube_transcripts (lib.cache, modelled from the design's      *)
(*     section 4.1, its source is not part of src/);                       *)
(*   - the character-budget trimmer _filter_by_char_cap (api/youtube.py);  *)
(*   - the video and microblog search pipelines (api/youtube.py, api/x.py).*)
(*   - the stored X credentials, the content endpoints (api/main.py) and   *)
(*     the source registry file (api/store.py).                            *)
(* Each part has a specification of its own over the shared variables.     *)
(***************************************************************************)
EXTENDS Integers, Sequences, FiniteSets, TLC

VARIABLES
    \* ---- TTL memoization cache
    clock,      \* current time in seconds
    ttl,        \* the ttl the decorator was built with
    entries,    \* key -> cache entry (absent, or stored with value and created_at)
    inflight,   \* key -> set of callers whose producer is running for the key
    runs,       \* key -> number of producer invocations so far
    cpc,        \* caller -> "idle" | "computing" | "waiting" | "got" |
                \*   "detached" (timed out, its producer still runs) | "dropped"
    ckey,       \* caller -> key of its current call
    ckind,      \* caller -> how its lookup went: "hit" | "miss" | "join"
    cjoined,    \* caller -> producer run that was current when it called
    cage,       \* caller -> age of the key's entry at its lookup (NoAge: no entry)
    cres,       \* caller -> outcome handed to it
    ncalls,     \* number of calls made so far
    \* ---- budget trimmer
    tIn,        \* the merged list the trimming step was given
    tCap,       \* char_cap: absent, or an integer
    tVideos,    \* the list being trimmed
    tEvicted,   \* the items popped so far, in the order they were popped
    tCalled,    \* whether _filter_by_char_cap was entered
    tPc,        \* "idle" | "process" | "filter" | "loop" | "returned" | "raised"
    \* ---- one call of a search pipeline
    pKind,      \* "none" | "youtube" | "x" | "substack"
    pPc,        \* "idle" | "fetching" | "trimming" | "returned" | "raised"
    pReq,       \* the arguments of the call
    pResolved,  \* channels_arr / users_arr
    pUpstream,  \* task -> what upstream listed for it, in upstream order
    pTasks,     \* task -> whether it returned, and the list it returned
    pFetches,   \* number of upstream fetches made
    pResult,    \* the list the call returned
    pError,     \* the exception the call raised, "none" if none
    pFailure,   \* the exception an upstream fetch of the call raised, "none" if none
    pEnrich,    \* the enrichment failures met: task, position, part, error
    \* ---- stored X credentials
    credFile,       \* the contents of cookies.txt
    clientCookies,  \* the cookies the module's X client holds
    wCount,         \* number of webhook calls handled
    wPayload,       \* the payload of the last webhook call
    wStatus,        \* the HTTP status of the last webhook call, 0 before any
    \* ---- one request to a content endpoint
    eName,      \* "none" | "youtube" | "x" | "substack" | "news"
    ePc,        \* "idle" | the pipeline being awaited | "done"
    eParams,    \* the query parameters
    eStatus,    \* the HTTP status of the response, 0 before it
    eDetail,    \* what an error response is about
    eTweets,    \* /news: tweets
    eCap,       \* char_cap as the endpoint function holds it
    eBody,      \* the list of the response
    \* ---- the registry file data/combined.json, its refresh and its readers
    combined,   \* the file: the rows written to it and whether the text is complete
    uPc,        \* get_data(force=True): "idle" | "computed" | "writing"
    uData,      \* the registry the refresh computed
    uOld,       \* the registry the file held when the refresh began
    nRefresh,   \* number of refreshes begun
    gResult,    \* what the last get_data() of a reader gave
    nReads,     \* number of reads made
    \* ---- _fetch_tweets (api/x.py): the paged upstream search
    fPc,        \* "idle" | "searching" | "paging" | "sleeping" | "returned" | "raised"
    fCount,     \* count
    fLen,       \* len(tweets)
    fLast,      \* len(_tweets): the size of the last page
    fNext,      \* number of _tweets.next() requests made
    fSleeps     \* number of asyncio.sleep(1) pauses made

cacheVars == <<clock, ttl, entries, inflight, runs, cpc, ckey, ckind, cjoined, cage, cres, ncalls>>

trimVars == <<tIn, tCap, tVideos, tEvicted, tCalled, tPc>>

pipeVars == <<pKind, pPc, pReq, pResolved, pUpstream, pTasks, pFetches, pResult, pError, pFailure,
              pEnrich>>

credVars == <<credFile, clientCookies, wCount, wPayload, wStatus>>

apiVars == <<eName, ePc, eParams, eStatus, eDetail, eTweets, eCap, eBody>>

regVars == <<combined, uPc, uData, uOld, nRefresh, gResult, nReads>>

pageVars == <<fPc, fCount, fLen, fLast, fNext, fSleeps>>

vars == <<cacheVars, trimVars, pipeVars, credVars, apiVars, regVars, pageVars>>

(***************************************************************************)
(* Bounds of the model                                                     *)
(***************************************************************************)
NCallers == 3
MaxCalls == 3
MaxOverrun == 1
MaxVideos == 3
MaxTranscript == 2
MaxUpstream == 2
MaxTweets == 3
MaxPerIdentifier == 2
MaxWebhooks == 2
MaxRefreshes == 2
MaxReads == 2
MaxUsersArr == 2

(***************************************************************************)
(* TTL memoization cache (design section 4.1)                              *)
(***************************************************************************)
\* @async_threadsafe_ttl_cache(ttl=3600) / @cache(ttl=3600)
CacheTtl == 3600

Callers == 1..NCallers

\* Key = producer identity plus argument values.
Keys == {<<"x_search", "a">>, <<"youtube_search", "a">>}

TtlChoices == {0, CacheTtl}

\* The instants at which the clock is observed: just before, at and after the ttl.
TimePoints == {0} \cup ((CacheTtl - 1)..(CacheTtl + MaxOverrun))

NoAge == 0 - 1
NoKey == <<"none", "none">>
NoResult == [kind |-> "none", run |-> 0]
AbsentEntry == [state |-> "absent", value |-> NoResult, created_at |-> 0]

\* An off-by-one expiry test: an entry of age ttl is still served.
IsFreshInclusive(e, now, t) == e.state = "stored" /\ now - e.created_at <= t

\* An entry is served only while now - created_at < ttl.
IsFresh(e, now, t) == e.state = "stored" /\ now - e.created_at < t

\* Age of the key's entry as a lookup sees it.
EntryAge(k) == IF entries[k].state = "stored" THEN clock - entries[k].created_at ELSE NoAge

\* A lookup that does not see computations in flight.
LookupNoJoin(k) == IF IsFresh(entries[k], clock, ttl) THEN "hit" ELSE "miss"

\* What a lookup finds: a fresh entry, a computation in flight, or nothing.
Lookup(k) ==
    IF IsFresh(entries[k], clock, ttl) THEN "hit"
    ELSE IF inflight[k] # {} THEN "join"
    ELSE "miss"

\* A failure kept as if it were a value.
EntryPoisoned(k, outcome) == [state |-> "stored", value |-> outcome, created_at |-> clock]

\* The entry a key is left with when its producer fails: none.
EntryAfterFailure(k, outcome) == AbsentEntry

\* The entry a key is left with when its producer returns.
EntryAfterSuccess(k, outcome) ==
    [state |-> "stored", value |-> outcome, created_at |-> clock]

\* The callers a finished computation is handed to: its runner and every waiter.
Receivers(k) == {c \in Callers : ckey[c] = k /\ cpc[c] \in {"computing", "waiting"}}

\* The producer caller c started is running, whether or not c still awaits it.
Running(c) == cpc[c] \in {"computing", "detached"} /\ c \in inflight[ckey[c]]

\* Where a finished computation leaves caller x, c being the one that started it.
PcAfterRun(x, c, k) ==
    IF x = c THEN (IF cpc[c] = "detached" THEN "dropped" ELSE "got")
    ELSE IF x \in Receivers(k) /\ cpc[x] = "waiting" THEN "got"
    ELSE cpc[x]

\* What a finished computation hands caller x.
ResAfterRun(x, c, k, outcome) ==
    IF (x = c /\ cpc[c] = "computing") \/ (x # c /\ ckey[x] = k /\ cpc[x] = "waiting")
    THEN outcome ELSE cres[x]

\* The cache before any call, built with ttl t.
CacheIdle(t) ==
    /\ clock = 0
    /\ ttl = t
    /\ entries = [k \in Keys |-> AbsentEntry]
    /\ inflight = [k \in Keys |-> {}]
    /\ runs = [k \in Keys |-> 0]
    /\ cpc = [c \in Callers |-> "idle"]
    /\ ckey = [c \in Callers |-> NoKey]
    /\ ckind = [c \in Callers |-> "none"]
    /\ cjoined = [c \in Callers |-> 0]
    /\ cage = [c \in Callers |-> NoAge]
    /\ cres = [c \in Callers |-> NoResult]
    /\ ncalls = 0

\* get_or_compute(key, ttl, producer), up to its first suspension point.
Call(c, k) ==
    /\ cpc[c] = "idle"
    /\ ncalls < MaxCalls
    /\ ncalls' = ncalls + 1
    /\ ckey' = [ckey EXCEPT ![c] = k]
    /\ ckind' = [ckind EXCEPT ![c] = Lookup(k)]
    /\ cage' = [cage EXCEPT ![c] = EntryAge(k)]
    /\ CASE Lookup(k) = "hit" ->
              /\ cpc' = [cpc EXCEPT ![c] = "got"]
              /\ cres' = [cres EXCEPT ![c] = entries[k].value]
              /\ cjoined' = [cjoined EXCEPT ![c] = entries[k].value.run]
              /\ UNCHANGED <<entries, inflight, runs>>
         [] Lookup(k) = "join" ->
              /\ cpc' = [cpc EXCEPT ![c] = "waiting"]
              /\ cjoined' = [cjoined EXCEPT ![c] = runs[k]]
              /\ UNCHANGED <<entries, inflight, runs, cres>>
         [] Lookup(k) = "miss" ->
              /\ cpc' = [cpc EXCEPT ![c] = "computing"]
              /\ runs' = [runs EXCEPT ![k] = @ + 1]
              /\ cjoined' = [cjoined EXCEPT ![c] = runs[k] + 1]
              /\ inflight' = [inflight EXCEPT ![k] = @ \cup {c}]
              \* an expired entry is treated as absent
              /\ entries' = [entries EXCEPT ![k] = AbsentEntry]
              /\ UNCHANGED cres
    /\ UNCHANGED <<clock, ttl>>
    /\ UNCHANGED <<trimVars, pipeVars, credVars, apiVars, regVars, pageVars>>

\* The producer run by caller c returns a value.
ProducerReturns(c) ==
    /\ Running(c)
    /\ LET k == ckey[c]
           outcome == [kind |-> "value", run |-> cjoined[c]]
       IN /\ entries' = [entries EXCEPT ![k] = EntryAfterSuccess(k, outcome)]
          /\ inflight' = [inflight EXCEPT ![k] = @ \ {c}]
          /\ cres' = [x \in Callers |-> ResAfterRun(x, c, k, outcome)]
          /\ cpc' = [x \in Callers |-> PcAfterRun(x, c, k)]
    /\ UNCHANGED <<clock, ttl, runs, ckey, ckind, cjoined, cage, ncalls>>
    /\ UNCHANGED <<trimVars, pipeVars, credVars, apiVars, regVars, pageVars>>

\* The producer run by caller c raises.
ProducerRaises(c) ==
    /\ Running(c)
    /\ LET k == ckey[c]
           outcome == [kind |-> "failure", run |-> cjoined[c]]
       IN /\ entries' = [entries EXCEPT ![k] = EntryAfterFailure(k, outcome)]
          /\ inflight' = [inflight EXCEPT ![k] = @ \ {c}]
          /\ cres' = [x \in Callers |-> ResAfterRun(x, c, k, outcome)]
          /\ cpc' = [x \in Callers |-> PcAfterRun(x, c, k)]
    /\ UNCHANGED <<clock, ttl, runs, ckey, ckind, cjoined, cage, ncalls>>
    /\ UNCHANGED <<trimVars, pipeVars, credVars, apiVars, regVars, pageVars>>

\* The caller takes its outcome and is free to call again.
Resolve(c) ==
    /\ cpc[c] \in {"got", "dropped"}
    /\ cpc' = [cpc EXCEPT ![c] = "idle"]
    /\ ckey' = [ckey EXCEPT ![c] = NoKey]
    /\ ckind' = [ckind EXCEPT ![c] = "none"]
    /\ cjoined' = [cjoined EXCEPT ![c] = 0]
    /\ cage' = [cage EXCEPT ![c] = NoAge]
    /\ cres' = [cres EXCEPT ![c] = NoResult]
    /\ UNCHANGED <<clock, ttl, entries, inflight, runs, ncalls>>
    /\ UNCHANGED <<trimVars, pipeVars, credVars, apiVars, regVars, pageVars>>

\* The computation of key k after its starter c has timed out: gone with it.
InflightAbandoned(k, c) == inflight[k] \ {c}

\* The computation of key k after its starter c has timed out: it goes on.
InflightAfterTimeout(k, c) == inflight[k]

\* Caller c, awaiting a computation, times out at the query surface and
\* disconnects: a waiter just leaves, the starter leaves its producer running.
Timeout(c) ==
    /\ cpc[c] \in {"computing", "waiting"}
    /\ IF cpc[c] = "waiting"
       THEN /\ cpc' = [cpc EXCEPT ![c] = "dropped"]
            /\ UNCHANGED inflight
       ELSE /\ cpc' = [cpc EXCEPT ![c] = "detached"]
            /\ inflight' = [inflight EXCEPT ![ckey[c]] = InflightAfterTimeout(ckey[c], c)]
    /\ UNCHANGED <<clock, ttl, entries, runs, ckey, ckind, cjoined, cage, cres, ncalls>>
    /\ UNCHANGED <<trimVars, pipeVars, credVars, apiVars, regVars, pageVars>>

\* Time passes; nothing is evicted in the background.
Tick(d) ==
    /\ d > 0
    /\ clock' = clock + d
    /\ UNCHANGED <<ttl, entries, inflight, runs, cpc, ckey, ckind, cjoined, cage, cres, ncalls>>
    /\ UNCHANGED <<trimVars, pipeVars, credVars, apiVars, regVars, pageVars>>

(***************************************************************************)
(* Budget trimmer: _process_video_results' trimming step and               *)
(* _filter_by_char_cap (api/youtube.py)                                    *)
(***************************************************************************)
\* Escaped length of a Video's model_dump_json inside json.dumps, all string
\* fields empty and without the value of "transcript" (class Video).
VideoFixedJsonLen == 175

\* transcript: str | None = None. A transcript is modelled by its length,
\* None by NoneT.
NoneT == 0 - 1
Transcripts == {NoneT} \cup (0..MaxTranscript)

\* Total escaped length of the other string fields of a video.
FieldLens == {0, 3}

\* char_cap: int | None
NoCap == [given |-> FALSE, value |-> 0]
Cap(n) == [given |-> TRUE, value |-> n]

\* Lists of n videos; the id of a video is its position in the list.
VideoListsOf(n) ==
    {[i \in 1..n |-> [id |-> i, transcript |-> f[i][1], fields |-> f[i][2],
                      long_desc |-> NoneT]] :
        f \in [1..n -> Transcripts \X FieldLens]}
VideoLists == UNION {VideoListsOf(n) : n \in 0..MaxVideos}

\* "transcript":null is 4 characters, "transcript":\"...\" is len + 4.
TranscriptJsonLen(t) == IF t = NoneT THEN 4 ELSE t + 4

\* "long_desc":\"...\" is len longer than "long_desc":null.
DescJsonLen(d) == IF d = NoneT THEN 0 ELSE d

\* len of the escaped vid.model_dump_json()
VideoJsonLen(v) ==
    VideoFixedJsonLen + v.fields + TranscriptJsonLen(v.transcript) + DescJsonLen(v.long_desc)

RECURSIVE SumJsonLen(_)
SumJsonLen(videos) ==
    IF videos = <<>> THEN 0
    ELSE VideoJsonLen(Head(videos)) + 2 + SumJsonLen(Tail(videos))

\* len(json.dumps([vid.model_dump_json() for vid in videos])): brackets, each
\* string in quotes, ", " between them.
SerializedLen(videos) ==
    2 + SumJsonLen(videos) + (IF Len(videos) > 0 THEN 2 * (Len(videos) - 1) ELSE 0)

\* [len(video.transcript) for video in videos]; a TypeError when one is None.
LenRaises(videos) == \E i \in 1..Len(videos) : videos[i].transcript = NoneT
TranscriptLengths(videos) == [i \in 1..Len(videos) |-> videos[i].transcript]

\* max(transcript_lengths); a ValueError when the list is empty.
MaxOf(lens) == CHOOSE m \in {lens[i] : i \in 1..Len(lens)} : \A i \in 1..Len(lens) : lens[i] <= m

\* The index of the first item: what popping from the front would take.
FirstIndex(lens) == 1

\* transcript_lengths.index(max(transcript_lengths)): first index of the maximum.
MaxIndex(lens) ==
    CHOOSE i \in 1..Len(lens) :
        /\ lens[i] = MaxOf(lens)
        /\ \A j \in 1..(i - 1) : lens[j] # MaxOf(lens)

\* Removal that fills the hole with the last item.
SwapRemove(videos, i) ==
    IF i = Len(videos) THEN SubSeq(videos, 1, i - 1)
    ELSE SubSeq(videos, 1, i - 1) \o <<videos[Len(videos)]>> \o SubSeq(videos, i + 1, Len(videos) - 1)

\* videos.pop(max_index)
Pop(videos, i) == SubSeq(videos, 1, i - 1) \o SubSeq(videos, i + 1, Len(videos))

\* "if char_cap:" in _process_video_results: None and 0 are falsy.
Truthy(cap) == cap.given /\ cap.value # 0

\* A test that never sees the budget as absent.
NeverNone(cap) == FALSE

\* "if char_cap is None" in _filter_by_char_cap
IsNone(cap) == ~cap.given

\* The budgets tried on a list: absent, unsatisfiable ones, and the sizes of
\* its prefixes and one less.
CapChoices(videos) ==
    {NoCap} \cup {Cap(n) : n \in {0 - 1, 0, 1, 2}}
    \cup {Cap(SerializedLen(SubSeq(videos, 1, n)) - d) : n \in 0..Len(videos), d \in {0, 1}}

TrimIdle ==
    /\ tIn = <<>>
    /\ tCap = NoCap
    /\ tVideos = <<>>
    /\ tEvicted = <<>>
    /\ tCalled = FALSE
    /\ tPc = "idle"

\* if char_cap: res = _filter_by_char_cap(res, char_cap) -- the budget is truthy
ProcessTrims ==
    /\ tPc = "process"
    /\ Truthy(tCap)
    /\ tPc' = "filter"
    /\ UNCHANGED <<tIn, tCap, tVideos, tEvicted, tCalled>>
    /\ UNCHANGED <<cacheVars, regVars, pageVars, pipeVars, credVars, apiVars>>

\* if char_cap: ... -- the budget is falsy, res is returned as it is
ProcessSkips ==
    /\ tPc = "process"
    /\ ~Truthy(tCap)
    /\ tPc' = "returned"
    /\ UNCHANGED <<tIn, tCap, tVideos, tEvicted, tCalled>>
    /\ UNCHANGED <<cacheVars, regVars, pageVars, pipeVars, credVars, apiVars>>

\* _filter_by_char_cap: if char_cap is None: return videos
FilterEnter ==
    /\ tPc = "filter"
    /\ tCalled' = TRUE
    /\ tPc' = IF IsNone(tCap) THEN "returned" ELSE "loop"
    /\ UNCHANGED <<tIn, tCap, tVideos, tEvicted>>
    /\ UNCHANGED <<cacheVars, regVars, pageVars, pipeVars, credVars, apiVars>>

\* One iteration of the while loop that pops the first longest transcript.
FilterPop ==
    /\ tPc = "loop"
    /\ SerializedLen(tVideos) > tCap.value
    /\ ~LenRaises(tVideos)
    /\ tVideos # <<>>
    /\ LET i == MaxIndex(TranscriptLengths(tVideos))
       IN /\ tEvicted' = Append(tEvicted, tVideos[i])
          /\ tVideos' = Pop(tVideos, i)
    /\ UNCHANGED <<tIn, tCap, tCalled, tPc>>
    /\ UNCHANGED <<cacheVars, regVars, pageVars, pipeVars, credVars, apiVars>>

\* The loop body raises: len(None) is a TypeError, max([]) a ValueError.
FilterRaises ==
    /\ tPc = "loop"
    /\ SerializedLen(tVideos) > tCap.value
    /\ LenRaises(tVideos) \/ tVideos = <<>>
    /\ tPc' = "raised"
    /\ UNCHANGED <<tIn, tCap, tVideos, tEvicted, tCalled>>
    /\ UNCHANGED <<cacheVars, regVars, pageVars, pipeVars, credVars, apiVars>>

\* The loop condition is false: return videos
FilterReturns ==
    /\ tPc = "loop"
    /\ ~(SerializedLen(tVideos) > tCap.value)
    /\ tPc' = "returned"
    /\ UNCHANGED <<tIn, tCap, tVideos, tEvicted, tCalled>>
    /\ UNCHANGED <<cacheVars, regVars, pageVars, pipeVars, credVars, apiVars>>

(***************************************************************************)
(* Source registry and its resolution (api/store.py get_data,              *)
(* _filter_channels in api/youtube.py, _filter_users in api/x.py)          *)
(***************************************************************************)
\* A string is a sequence of one-character strings.
Str2(a, b) == <<a, b>>
Str3(a, b, c) == <<a, b, c>>
NA == Str3("n", "/", "a")

\* get_data(): the curated sources, in file order.
Data ==
    << [Name |-> Str3("O", "n", "e"), Youtube |-> Str3("@", "A", "b"), X |-> Str2("A", "b"),
        Substack |-> NA],
       [Name |-> Str3("T", "w", "o"), Youtube |-> Str3("@", "c", "d"), X |-> Str2("c", "d"),
        Substack |-> Str2("c", "d")],
       [Name |-> Str2("Z", "e"),      Youtube |-> NA,                  X |-> NA,
        Substack |-> NA],
       [Name |-> Str2("O", "h"),      Youtube |-> Str3("@", "n", "a"), X |-> Str2("n", "a"),
        Substack |-> NA] >>

\* str.lower() on the alphabet of the registry
LowerChar(c) ==
    CASE c = "A" -> "a" [] c = "B" -> "b" [] c = "C" -> "c" [] c = "D" -> "d"
      [] c = "Z" -> "z" [] OTHER -> c
Lower(s) == [i \in 1..Len(s) |-> LowerChar(s[i])]

IsNotAt(c) == c # "@"
\* s.replace("@", "")
StripAt(s) == SelectSeq(s, IsNotAt)

\* needle in hay
Contains(hay, needle) ==
    \E i \in 0..(Len(hay) - Len(needle)) : SubSeq(hay, i + 1, i + Len(needle)) = needle

\* next((item for item in data if ...), None): index of the first match, 0 for None
\* matches[i] tells whether item i of data satisfies the condition
FirstMatch(matches) ==
    IF \E i \in 1..Len(matches) : matches[i]
    THEN CHOOSE i \in 1..Len(matches) : matches[i] /\ \A j \in 1..(i - 1) : ~matches[j]
    ELSE 0

\* found and found[col] and found[col].lower() != "n/a"
Usable(handle) == handle # <<>> /\ Lower(handle) # NA

RECURSIVE FilterChannels(_)
\* _filter_channels(channels)
FilterChannels(channels) ==
    IF channels = <<>> THEN <<>>
    ELSE LET channel == StripAt(Head(channels))
             found == FirstMatch([i \in 1..Len(Data) |-> Contains(Data[i].Youtube, channel)])
         IN (IF found # 0 /\ Usable(Data[found].Youtube) THEN <<Data[found].Youtube>> ELSE <<>>)
            \o FilterChannels(Tail(channels))

RECURSIVE FilterUsers(_)
\* _filter_users(users)
FilterUsers(users) ==
    IF users = <<>> THEN <<>>
    ELSE LET user == Head(users)
             found == FirstMatch([i \in 1..Len(Data) |-> Contains(Lower(Data[i].X), Lower(user))])
         IN (IF found # 0 /\ Usable(Data[found].X) THEN <<Data[found].X>> ELSE <<>>)
            \o FilterUsers(Tail(users))

\* ["@" + channel.replace("@", "") for channel in channels.lower().split(",")]
NormalizeChannels(channels) == [i \in 1..Len(channels) |-> <<"@">> \o StripAt(Lower(channels[i]))]

\* users.lower().split(",")
NormalizeUsers(users) == [i \in 1..Len(users) |-> Lower(users[i])]

\* The comma-separated identifier lists a caller may pass, already split;
\* <<>> stands for the empty string (or None).
ChannelRequests ==
    { <<>>,
      <<Str2("c", "d")>>,
      <<Str2("z", "z")>>,
      <<Str3("@", "c", "d"), Str2("z", "z")>>,
      <<Str2("c", "d"), <<"b">>>>,
      <<<<"a">>>> }

UserRequests ==
    { <<>>,
      <<Str2("c", "d")>>,
      <<Str2("z", "z")>>,
      <<Str2("a", "b"), Str2("c", "d")>>,
      <<Str2("z", "z"), <<"a">>>>,
      <<<<"n">>>> }

(***************************************************************************)
(* The registry file: get_data() readers and the refresh get_data(force=True)*)
(* run by bin/update-db.py in a process of its own (api/store.py)          *)
(***************************************************************************)
\* The registries all.csv may hold: the sources listed so far.
CsvVersions == {SubSeq(Data, 1, n) : n \in 2..Len(Data)}

\* data/combined.json holding the whole JSON text of a registry.
Complete(rows) == [rows |-> rows, complete |-> TRUE]

\* open(combined, "w"): the file exists and is empty.
Truncated == [rows |-> <<>>, complete |-> FALSE]

\* The file after the buffer was flushed with n rows of data written so far.
Flushed(data, n) == [rows |-> SubSeq(data, 1, n), complete |-> FALSE]

NoRead == [kind |-> "none", rows |-> <<>>]

\* json.load(f): the rows of a complete text, JSONDecodeError otherwise.
JsonLoad(file) ==
    IF file.complete THEN [kind |-> "data", rows |-> file.rows]
    ELSE [kind |-> "JSONDecodeError", rows |-> <<>>]

\* The file as built by an earlier get_data, no refresh running, nothing read.
RegIdle ==
    /\ combined = Complete(SubSeq(Data, 1, 2))
    /\ uPc = "idle"
    /\ uData = <<>>
    /\ uOld = SubSeq(Data, 1, 2)
    /\ nRefresh = 0
    /\ gResult = NoRead
    /\ nReads = 0

\* get_data(force=True), lines 71-76: read all.csv and the facts, merge them.
\* (The merge adds the fact columns, which no reader of this model looks at.)
RefreshCompute(csv) ==
    /\ uPc = "idle"
    /\ nRefresh < MaxRefreshes
    /\ nRefresh' = nRefresh + 1
    /\ uData' = csv
    /\ uOld' = combined.rows
    /\ uPc' = "computed"
    /\ UNCHANGED <<combined, gResult, nReads>>
    /\ UNCHANGED <<cacheVars, trimVars, pipeVars, credVars, apiVars, pageVars>>

\* line 78: open(combined, "w") truncates the file in place.
RefreshOpen ==
    /\ uPc = "computed"
    /\ combined' = Truncated
    /\ uPc' = "writing"
    /\ UNCHANGED <<uData, uOld, nRefresh, gResult, nReads>>
    /\ UNCHANGED <<cacheVars, trimVars, pipeVars, credVars, apiVars, pageVars>>

\* line 79: json.dump writes the text piece by piece; the buffer is flushed
\* to the file whenever it fills.
RefreshFlush ==
    /\ uPc = "writing"
    /\ Len(combined.rows) < Len(uData)
    /\ combined' = Flushed(uData, Len(combined.rows) + 1)
    /\ UNCHANGED <<uPc, uData, uOld, nRefresh, gResult, nReads>>
    /\ UNCHANGED <<cacheVars, trimVars, pipeVars, credVars, apiVars, pageVars>>

\* the end of the with block: the rest is flushed and the file closed.
RefreshClose ==
    /\ uPc = "writing"
    /\ combined' = Complete(uData)
    /\ uPc' = "idle"
    /\ UNCHANGED <<uData, uOld, nRefresh, gResult, nReads>>
    /\ UNCHANGED <<cacheVars, trimVars, pipeVars, credVars, apiVars, pageVars>>

\* get_data() in the API process, lines 66-68: the file exists, so it is
\* opened and parsed.
GetData ==
    /\ nReads < MaxReads
    /\ nReads' = nReads + 1
    /\ gResult' = JsonLoad(combined)
    /\ UNCHANGED <<combined, uPc, uData, uOld, nRefresh>>
    /\ UNCHANGED <<cacheVars, trimVars, pipeVars, credVars, apiVars, pageVars>>

(***************************************************************************)
(* Video pipeline helpers (api/youtube.py)                                 *)
(***************************************************************************)
\* publishedTimeText: a relative time "<n> <unit>s ago", possibly prefixed by
\* "Streamed ", or "" when the renderer carries none.
NoPublishTime == [streamed |-> FALSE, n |-> 0, unit |-> "none"]
Ago(k, u) == [streamed |-> FALSE, n |-> k, unit |-> u]
StreamedAgo(k, u) == [streamed |-> TRUE, n |-> k, unit |-> u]

PublishTimes == {Ago(2, "hour"), StreamedAgo(1, "day"), NoPublishTime}

UnitSeconds(u) == IF u = "hour" THEN 3600 ELSE 86400

\* video.publish_time.replace("Streamed ", "")
StripStreamed(p) == [p EXCEPT !.streamed = FALSE]

\* dateparser.parse(text, settings={"RELATIVE_BASE": now}) returns None for a
\* text that is no date expression.
ParseFails(p) == p.unit = "none"

\* time.mktime(dateparser.parse(...).timetuple())
ParsedTime(p, now) == now - p.n * UnitSeconds(p.unit)

\* _sort_by_publish_time(video) raises (None has no timetuple)
SortKeyRaises(video) == ParseFails(StripStreamed(video.publish_time))

\* _sort_by_publish_time(video), called when the clock reads now
SortKey(video, now) == ParsedTime(StripStreamed(video.publish_time), now)

\* datetime.now() of the first key call of a sort, in seconds
RelativeBase == 1000000

\* list.sort calls the key function on the items in list order; the clock
\* reads the next second from call number tick on
Decorated(videos, tick) ==
    [i \in 1..Len(videos) |->
        [key |-> SortKey(videos[i], RelativeBase + (IF i >= tick THEN 1 ELSE 0)),
         item |-> videos[i]]]

RECURSIVE InsertByKey(_, _)
\* stable insertion of d after every item whose key is <= its own
InsertByKey(sorted, d) ==
    IF sorted = <<>> THEN <<d>>
    ELSE IF Head(sorted).key <= d.key
         THEN <<Head(sorted)>> \o InsertByKey(Tail(sorted), d)
         ELSE <<d>> \o sorted

RECURSIVE SortDecorated(_)
SortDecorated(ds) ==
    IF ds = <<>> THEN <<>>
    ELSE InsertByKey(SortDecorated(SubSeq(ds, 1, Len(ds) - 1)), ds[Len(ds)])

\* videos.sort(key=_sort_by_publish_time): stable, ascending
SortAscending(videos, tick) ==
    LET ds == SortDecorated(Decorated(videos, tick))
    IN [i \in 1..Len(ds) |-> ds[i].item]

\* A slice that leaves the list as it is.
Same(s) == s

\* videos[::-1]
Reversed(s) == [i \in 1..Len(s) |-> s[Len(s) + 1 - i]]

\* "if not query:" -- None and "" are falsy
Falsy(q) == q = ""

\* the per-channel part of _process_video_results' loop
OrderChannel(videos, query, tick) ==
    IF Falsy(query) THEN Reversed(SortAscending(videos, tick)) ELSE videos

\* videos.sort(...) raises for some channel
ProcessRaises(results, query) ==
    /\ Falsy(query)
    /\ \E i \in 1..Len(results) : \E j \in 1..Len(results[i]) : SortKeyRaises(results[i][j])

RECURSIVE MergeChannels(_, _, _)
\* res.extend(videos) for each channel's list, in task order
MergeChannels(results, query, tick) ==
    IF results = <<>> THEN <<>>
    ELSE OrderChannel(Head(results), query, tick)
         \o MergeChannels(Tail(results), query, tick - Len(Head(results)))

RECURSIVE ParseLoop(_, _, _)
\* the loops of _parse_html_list: append, then break once len(results) >= max_results
ParseLoop(raw, results, max_results) ==
    IF raw = <<>> THEN results
    ELSE LET appended == Append(results, Head(raw))
         IN IF Len(appended) >= max_results THEN appended
            ELSE ParseLoop(Tail(raw), appended, max_results)

\* _parse_html_list(html, max_results) on a page listing the videos raw
ParseHtmlList(raw, max_results) == ParseLoop(raw, <<>>, max_results)

\* The text of the transcript YouTube holds for the video at position i of a
\* channel page, by its length.
TranscriptAt(i) == (i - 1) % (MaxTranscript + 1)

\* len(publish_time), e.g. len("Streamed 1 day ago") = 18
PublishTimeLen(p) ==
    IF p.unit = "none" THEN 0
    ELSE (IF p.streamed THEN 9 ELSE 0) + 2 + (IF p.unit = "hour" THEN 4 ELSE 3)
         + (IF p.n > 1 THEN 1 ELSE 0) + 4

\* The videos a channel page lists for the given publish times, upstream order.
RawVideos(channel, times) ==
    [i \in 1..Len(times) |->
        [id |-> <<channel, i>>, channel |-> channel, publish_time |-> times[i],
         transcript |-> NoneT, fields |-> PublishTimeLen(times[i]),
         long_desc |-> NoneT]]

\* The long description the watch page of the video at position i holds, by
\* its length.
LongDescAt(i) == i

\* for video in videos: if get_descriptions: video.long_desc = ...;
\* if get_transcripts: video.transcript = _get_video_transcript(video.id)
Enrich(videos, get_descriptions, get_transcripts) ==
    [i \in 1..Len(videos) |->
        [videos[i] EXCEPT
            !.long_desc = IF get_descriptions THEN LongDescAt(videos[i].id[2]) ELSE @,
            !.transcript = IF get_transcripts THEN TranscriptAt(videos[i].id[2]) ELSE @]]

\* What may go wrong when the long description of a video is fetched:
\* session.get fails, the watch page has no "ytInitialData", its JSON does not
\* parse, or the description is not where it used to be in it.
DescFailures == {"ClientError", "ValueError", "JSONDecodeError", "AttributeError"}

\* except (AttributeError, KeyError, IndexError, TypeError) around the lookup
\* of the description inside the parsed page
DescCaught(error) == error = "AttributeError"

\* What fetching a transcript may raise.
TranscriptFailures ==
    {"KeyError", "AttributeError", "ValueError", "ConnectionError", "TimeoutError", "Exception"}

\* except (KeyError, AttributeError, ValueError, ConnectionError, TimeoutError): return ""
TranscriptCaught(error) ==
    error \in {"KeyError", "AttributeError", "ValueError", "ConnectionError", "TimeoutError"}

\* The failures of the enrichment of one video: the part and the exception.
EnrichFailures(get_descriptions, get_transcripts) ==
    {[part |-> "long_desc", error |-> e] : e \in (IF get_descriptions THEN DescFailures ELSE {})}
    \cup {[part |-> "transcript", error |-> e] : e \in (IF get_transcripts THEN TranscriptFailures ELSE {})}

\* Whether the code turns the failure into an absent payload.
EnrichCaught(f) == IF f.part = "long_desc" THEN DescCaught(f.error) ELSE TranscriptCaught(f.error)

\* The enriched videos when the enrichment of the video at position k met the
\* caught failure f: long_desc stays None, the transcript is "".
Degraded(videos, k, f, get_descriptions, get_transcripts) ==
    [i \in 1..Len(videos) |->
        IF i # k THEN Enrich(videos, get_descriptions, get_transcripts)[i]
        ELSE IF f.part = "long_desc"
        THEN [Enrich(videos, get_descriptions, get_transcripts)[i] EXCEPT !.long_desc = NoneT]
        ELSE [Enrich(videos, get_descriptions, get_transcripts)[i] EXCEPT !.transcript = 0]]

UpstreamTimes == UNION {[1..n -> PublishTimes] : n \in 0..MaxUpstream}

(***************************************************************************)
(* Microblog pipeline helpers (api/x.py)                                   *)
(***************************************************************************)
\* Authors upstream may return tweets of: the registry's three and an outsider.
Authors == {Str2("A", "b"), Str2("c", "d"), Str2("n", "a"), Str2("z", "z")}

\* query string pieces: "from:<user>"
FromClause(user) == <<"from:", user>>

\* [f"from:{user}" for user in _filter_users(users.lower().split(","))] if users else []
UsersArr(users) ==
    IF users = <<>> THEN <<>>
    ELSE LET fixed == FilterUsers(NormalizeUsers(users))
         IN [i \in 1..Len(fixed) |-> FromClause(fixed[i])]

\* The authors a search built by _build_x_search_query can return tweets of:
\* those of its from: clauses, or anyone when it has none.
SearchAuthors(users_arr) ==
    IF users_arr = <<>> THEN Authors
    ELSE {a \in Authors : \E i \in 1..Len(users_arr) : users_arr[i] = FromClause(a)}

\* The tweet lists upstream may answer a search with, in upstream order.
TweetLists(users_arr) ==
    UNION {{[i \in 1..n |-> [id |-> i, user |-> f[i]]] : f \in [1..n -> SearchAuthors(users_arr)]} :
              n \in 0..MaxTweets}

RECURSIVE MaxPerUserLoop(_, _, _, _)
\* the loop of _max_per_user: ret maps a user id to its kept tweets, order is
\* the insertion order of ret's keys
MaxPerUserLoop(tweets, order, ret, max_tweets_per_user) ==
    IF tweets = <<>> THEN [order |-> order, ret |-> ret]
    ELSE LET tweet == Head(tweets)
             known == \E i \in 1..Len(order) : order[i] = tweet.user
             order1 == IF known THEN order ELSE Append(order, tweet.user)
             mine == IF known THEN ret[tweet.user] ELSE <<>>
             kept == IF Len(mine) >= max_tweets_per_user THEN mine ELSE Append(mine, tweet)
         IN MaxPerUserLoop(Tail(tweets), order1,
                           [u \in Authors |-> IF u = tweet.user THEN kept ELSE ret[u]],
                           max_tweets_per_user)

RECURSIVE Flatten(_, _)
\* [tweet for tweets in ret.values() for tweet in tweets]
Flatten(order, ret) ==
    IF order = <<>> THEN <<>> ELSE ret[Head(order)] \o Flatten(Tail(order), ret)

\* _max_per_user(tweets, max_tweets_per_user)
MaxPerUser(tweets, max_tweets_per_user) ==
    LET r == MaxPerUserLoop(tweets, <<>>, [u \in Authors |-> <<>>], max_tweets_per_user)
    IN Flatten(r.order, r.ret)

(***************************************************************************)
(* Stored X credentials: cookies.txt, written by the webhook               *)
(* (api/main.py receive_cookies) and read by _get_client (api/x.py)        *)
(***************************************************************************)
\* A cookie blob is a string "k=v; k=v": a sequence of <<key, value>> pairs.
Morsel(k, v) == <<k, v>>

\* SVC_COOKIES, written to cookies.txt at import when the file is missing
StartBlob == <<Morsel("auth_token", 0), Morsel("ct0", 0)>>

\* The blobs the refresh service may send.
Blobs ==
    { <<>>,
      <<Morsel("auth_token", 1), Morsel("ct0", 1)>>,
      <<Morsel("auth_token", 2)>>,
      <<Morsel("ct0", 1), Morsel("ct0", 2)>> }

\* WebhookPayload: success, and cookies (None when has_cookies is FALSE)
Payloads == [success : BOOLEAN, has_cookies : BOOLEAN, cookies : Blobs]

NoPayload == [success |-> FALSE, has_cookies |-> FALSE, cookies |-> <<>>]

\* The keys of a blob
BlobKeys(blob) == {blob[i][1] : i \in 1..Len(blob)}

\* cookie.load(cookies_str); {k: v.value for k, v in cookie.items()} -- a
\* later morsel of the same key replaces an earlier one
ParseCookies(blob) ==
    [k \in BlobKeys(blob) |->
        LET last == CHOOSE i \in 1..Len(blob) :
                        blob[i][1] = k /\ \A j \in (i + 1)..Len(blob) : blob[j][1] # k
        IN blob[last][2]]

\* client.set_cookies(cookies): the jar is updated with the given cookies
SetCookies(jar, cookies) ==
    [k \in (DOMAIN jar) \cup (DOMAIN cookies) |->
        IF k \in DOMAIN cookies THEN cookies[k] ELSE jar[k]]

\* A client given the cookies the process started with.
GetClientFromStart == SetCookies(clientCookies, ParseCookies(StartBlob))

\* _get_client(): the file is read and its cookies are set on the client
GetClient == SetCookies(clientCookies, ParseCookies(credFile))

\* A test that looks at the success flag alone.
RejectedUnlessSuccess(payload) == ~payload.success

\* if not payload.success or not payload.cookies
Rejected(payload) ==
    ~payload.success \/ ~payload.has_cookies \/ payload.cookies = <<>>

CredIdle ==
    /\ credFile = StartBlob
    /\ clientCookies = <<>>
    /\ wCount = 0
    /\ wPayload = NoPayload
    /\ wStatus = 0

\* POST /webhook/cookies
ReceiveCookies(payload) ==
    /\ wCount < MaxWebhooks
    /\ wCount' = wCount + 1
    /\ wPayload' = payload
    /\ IF Rejected(payload)
       THEN /\ wStatus' = 400
            /\ UNCHANGED credFile
       ELSE /\ wStatus' = 200
            /\ credFile' = payload.cookies
    /\ UNCHANGED clientCookies
    /\ UNCHANGED <<cacheVars, regVars, pageVars, trimVars, pipeVars, apiVars>>

(***************************************************************************)
(* Search pipelines: youtube_search (api/youtube.py), x_search (api/x.py)  *)
(***************************************************************************)
\* char_cap values a caller passes: none, zero, and one that holds two videos
CharCaps == {NoCap, Cap(0), Cap(2 * VideoFixedJsonLen + 60)}

Queries == {"", "q"}

\* The arguments of one pipeline call.
YoutubeRequests ==
    [ids : ChannelRequests, query : Queries, cap : 0..MaxPerIdentifier,
     char_cap : CharCaps, get_transcripts : BOOLEAN, get_descriptions : {FALSE},
     period_days : {3}, end_date : {"valid"}]

XRequests ==
    [ids : UserRequests, query : Queries, cap : 0..MaxPerIdentifier,
     char_cap : {NoCap}, get_transcripts : {FALSE}, get_descriptions : {FALSE},
     period_days : {0, 1, 3}, end_date : {"none", "valid", "invalid"}]

NoRequest ==
    [ids |-> <<>>, query |-> "", cap |-> 0, char_cap |-> NoCap,
     get_transcripts |-> FALSE, get_descriptions |-> FALSE, period_days |-> 0,
     end_date |-> "none"]

\* A task that has not returned, and one that returned the list items.
Pending == [done |-> FALSE, items |-> <<>>]
Done(items) == [done |-> TRUE, items |-> items]

PipeIdle ==
    /\ pKind = "none"
    /\ pPc = "idle"
    /\ pReq = NoRequest
    /\ pResolved = <<>>
    /\ pUpstream = <<>>
    /\ pTasks = <<>>
    /\ pFetches = 0
    /\ pResult = <<>>
    /\ pError = "none"
    /\ pFailure = "none"
    /\ pEnrich = {}

\* _validate_x_search_params raises ValueError
ValidateRaises(req) ==
    \/ req.ids = <<>> /\ Falsy(req.query)
    \/ req.period_days <= 1
    \/ req.end_date = "invalid"

\* youtube_search up to the creation of the channel tasks
YoutubeStart(req) ==
    /\ pPc = "idle"
    /\ pKind' = "youtube"
    /\ pReq' = req
    /\ LET channels_arr == FilterChannels(NormalizeChannels(req.ids))
       IN IF req.ids = <<>>
          THEN /\ pPc' = "raised"
               /\ pError' = "ValueError"
               /\ UNCHANGED <<pResolved, pUpstream, pTasks>>
          ELSE IF Len(channels_arr) = 0
          THEN /\ pPc' = "returned"
               /\ UNCHANGED <<pResolved, pUpstream, pTasks, pError>>
          ELSE /\ pPc' = "fetching"
               /\ pResolved' = channels_arr
               /\ pUpstream' = [i \in 1..Len(channels_arr) |-> <<>>]
               /\ pTasks' = [i \in 1..Len(channels_arr) |-> Pending]
               /\ UNCHANGED pError
    /\ UNCHANGED <<pFetches, pResult>>
    /\ UNCHANGED <<cacheVars, regVars, pageVars, trimVars, credVars, apiVars>>
    /\ UNCHANGED <<pFailure, pEnrich>>

\* _get_channel_videos for task i: the page answers 200 and lists the videos raw
YoutubeFetch(i, times) ==
    /\ pKind = "youtube" /\ pPc = "fetching"
    /\ i \in 1..Len(pTasks) /\ pTasks[i] = Pending
    /\ LET raw == RawVideos(pResolved[i], times)
       IN /\ pUpstream' = [pUpstream EXCEPT ![i] = raw]
          /\ pTasks' = [pTasks EXCEPT ![i] =
                            Done(Enrich(ParseHtmlList(raw, pReq.cap),
                                        pReq.get_descriptions, pReq.get_transcripts))]
    /\ pFetches' = pFetches + 1
    /\ UNCHANGED <<pKind, pPc, pReq, pResolved, pResult, pError>>
    /\ UNCHANGED <<cacheVars, regVars, pageVars, trimVars, credVars, apiVars>>
    /\ UNCHANGED <<pFailure, pEnrich>>

\* A handler that logs the exception and goes on.
Swallowed(error) == [pc |-> "fetching", error |-> "none"]

\* except HTTPException as e: logger.exception(e); raise -- and the same for
\* every other Exception
Reraised(error) == [pc |-> "raised", error |-> error]

\* _get_channel_videos for task i: response.status != 200, HTTPException(400)
\* leaves asyncio.gather and youtube_search
YoutubeFetchFails(i) ==
    /\ pKind = "youtube" /\ pPc = "fetching"
    /\ i \in 1..Len(pTasks) /\ pTasks[i] = Pending
    /\ pFetches' = pFetches + 1
    /\ pPc' = Reraised("HTTPException").pc
    /\ pError' = Reraised("HTTPException").error
    /\ UNCHANGED <<pKind, pReq, pResolved, pUpstream, pTasks, pResult>>
    /\ UNCHANGED <<cacheVars, regVars, pageVars, trimVars, credVars, apiVars>>
    /\ pFailure' = "HTTPException"
    /\ UNCHANGED pEnrich

\* _get_channel_videos for task i: the page lists the videos of times, and
\* the enrichment of the k-th video kept meets the failure f. A caught failure
\* leaves the payload absent and the task returns; any other leaves
\* _get_channel_videos, asyncio.gather and youtube_search.
YoutubeEnrichFails(i, times, k, f) ==
    /\ pKind = "youtube" /\ pPc = "fetching"
    /\ i \in 1..Len(pTasks) /\ pTasks[i] = Pending
    /\ f \in EnrichFailures(pReq.get_descriptions, pReq.get_transcripts)
    /\ LET raw == RawVideos(pResolved[i], times)
           videos == ParseHtmlList(raw, pReq.cap)
       IN /\ k \in 1..Len(videos)
          /\ pUpstream' = [pUpstream EXCEPT ![i] = raw]
          /\ pEnrich' = pEnrich \cup {[task |-> i, pos |-> k, part |-> f.part, error |-> f.error]}
          /\ IF EnrichCaught(f)
             THEN /\ pTasks' = [pTasks EXCEPT ![i] =
                        Done(Degraded(videos, k, f, pReq.get_descriptions, pReq.get_transcripts))]
                  /\ UNCHANGED <<pPc, pError, pFailure>>
             ELSE /\ pPc' = "raised"
                  /\ pError' = f.error
                  /\ pFailure' = f.error
                  /\ UNCHANGED pTasks
    /\ pFetches' = pFetches + 1
    /\ UNCHANGED <<pKind, pReq, pResolved, pResult>>
    /\ UNCHANGED <<cacheVars, regVars, pageVars, trimVars, credVars, apiVars>>

AllFetched == \A i \in 1..Len(pTasks) : pTasks[i].done

\* results = await asyncio.gather(*tasks)
Results == [i \in 1..Len(pTasks) |-> pTasks[i].items]

\* _process_video_results up to "if char_cap:"; tick is the key call, counted
\* over the sorts of all channels, from which datetime.now() reads the next
\* second
YoutubeProcess(tick) ==
    /\ pKind = "youtube" /\ pPc = "fetching" /\ AllFetched
    /\ ~ProcessRaises(Results, pReq.query)
    /\ LET res == MergeChannels(Results, pReq.query, tick)
       IN /\ tIn' = res
          /\ tVideos' = res
    /\ tCap' = pReq.char_cap
    /\ tEvicted' = <<>>
    /\ tCalled' = FALSE
    /\ tPc' = "process"
    /\ pPc' = "trimming"
    /\ UNCHANGED <<pKind, pReq, pResolved, pUpstream, pTasks, pFetches, pResult, pError>>
    /\ UNCHANGED <<cacheVars, regVars, pageVars>>
    /\ UNCHANGED <<pFailure, pEnrich>>
    /\ UNCHANGED <<credVars, apiVars>>

\* videos.sort(key=_sort_by_publish_time) raises: dateparser gave None
YoutubeSortRaises ==
    /\ pKind = "youtube" /\ pPc = "fetching" /\ AllFetched
    /\ ProcessRaises(Results, pReq.query)
    /\ pPc' = "raised"
    /\ pError' = "AttributeError"
    /\ UNCHANGED <<pKind, pReq, pResolved, pUpstream, pTasks, pFetches, pResult>>
    /\ UNCHANGED <<cacheVars, regVars, pageVars, trimVars, credVars, apiVars>>
    /\ UNCHANGED <<pFailure, pEnrich>>

\* return _process_video_results(results, query, char_cap)
YoutubeReturns ==
    /\ pKind = "youtube" /\ pPc = "trimming" /\ tPc = "returned"
    /\ pResult' = tVideos
    /\ pPc' = "returned"
    /\ UNCHANGED <<pKind, pReq, pResolved, pUpstream, pTasks, pFetches, pError>>
    /\ UNCHANGED <<cacheVars, regVars, pageVars, trimVars, credVars, apiVars>>
    /\ UNCHANGED <<pFailure, pEnrich>>

\* _filter_by_char_cap raised inside _process_video_results
YoutubeTrimRaises ==
    /\ pKind = "youtube" /\ pPc = "trimming" /\ tPc = "raised"
    /\ pPc' = "raised"
    /\ pError' = IF LenRaises(tVideos) THEN "TypeError" ELSE "ValueError"
    /\ UNCHANGED <<pKind, pReq, pResolved, pUpstream, pTasks, pFetches, pResult>>
    /\ UNCHANGED <<cacheVars, regVars, pageVars, trimVars, credVars, apiVars>>
    /\ UNCHANGED <<pFailure, pEnrich>>

\* x_search up to "try:"
XStart(req) ==
    /\ pPc = "idle"
    /\ pKind' = "x"
    /\ pReq' = req
    /\ IF ValidateRaises(req)
       THEN /\ pPc' = "raised"
            /\ pError' = "ValueError"
            /\ UNCHANGED <<pResolved, pUpstream, pTasks>>
       ELSE /\ pPc' = "fetching"
            /\ pResolved' = UsersArr(req.ids)
            /\ pUpstream' = <<<<>>>>
            /\ pTasks' = <<Pending>>
            /\ UNCHANGED pError
    /\ UNCHANGED <<pFetches, pResult>>
    /\ UNCHANGED <<cacheVars, regVars, pageVars, trimVars, credVars, apiVars>>
    /\ UNCHANGED <<pFailure, pEnrich>>

\* tweets = await _fetch_tweets(search, count); return _max_per_user(tweets, ...)
XFetch(tweets) ==
    /\ pKind = "x" /\ pPc = "fetching"
    /\ tweets \in TweetLists(pResolved)
    /\ pFetches' = pFetches + 1
    /\ clientCookies' = GetClient
    /\ pUpstream' = <<tweets>>
    /\ pTasks' = <<Done(tweets)>>
    /\ pResult' = MaxPerUser(tweets, pReq.cap)
    /\ pPc' = "returned"
    /\ UNCHANGED <<pKind, pReq, pResolved, pError>>
    /\ UNCHANGED <<cacheVars, regVars, pageVars, trimVars, credFile, wCount, wPayload, wStatus, apiVars>>
    /\ UNCHANGED <<pFailure, pEnrich>>

\* What _get_client and the client's search may raise.
XErrors == {"HTTPException", "ConnectionError", "TimeoutError", "ValueError", "TwitterException"}

\* except HTTPException / except (ConnectionError, TimeoutError, ValueError)
XCaught(error) == error \in {"HTTPException", "ConnectionError", "TimeoutError", "ValueError"}

\* _fetch_tweets raises: a caught exception is logged and [] returned, any
\* other leaves x_search
XFetchFails(error) ==
    /\ pKind = "x" /\ pPc = "fetching"
    /\ pFetches' = pFetches + 1
    /\ clientCookies' = GetClient
    /\ pFailure' = error
    /\ UNCHANGED pEnrich
    /\ IF XCaught(error)
       THEN /\ pResult' = <<>>
            /\ pPc' = "returned"
            /\ UNCHANGED pError
       ELSE /\ pPc' = "raised"
            /\ pError' = error
            /\ UNCHANGED pResult
    /\ UNCHANGED <<pKind, pReq, pResolved, pUpstream, pTasks>>
    /\ UNCHANGED <<cacheVars, regVars, pageVars, trimVars, credFile, wCount, wPayload, wStatus, apiVars>>

(***************************************************************************)
(* Newsletter pipeline: substack_search (api/substack.py)                  *)
(***************************************************************************)
Min(a, b) == IF a <= b THEN a ELSE b

RECURSIVE StripLeft(_)
StripLeft(s) == IF s # <<>> /\ Head(s) = " " THEN StripLeft(Tail(s)) ELSE s

RECURSIVE StripRight(_)
StripRight(s) ==
    IF s # <<>> /\ s[Len(s)] = " " THEN StripRight(SubSeq(s, 1, Len(s) - 1)) ELSE s

\* pub.strip()
Strip(s) == StripRight(StripLeft(s))

\* The comma-separated publication lists a caller may pass, already split;
\* <<>> stands for the empty string (or None).
PublicationRequests ==
    { <<>>,
      <<Str2("c", "d")>>,
      <<Str2("c", "d"), Str3(" ", "z", "z")>> }

SubstackRequests ==
    [ids : PublicationRequests, query : Queries, cap : 0..MaxPerIdentifier,
     char_cap : {NoCap}, get_transcripts : {FALSE}, get_descriptions : {FALSE},
     period_days : {3}, end_date : {"none"}]

\* What a post's metadata makes of it: appended ("free"), skipped because it
\* is paywalled or undated ("skipped"), or get_metadata raises ("broken").
PostKinds == {"free", "skipped", "broken"}

\* The post lists a publication answers get_posts / search_posts with; the
\* library returns at most limit posts.
PostLists(limit) == UNION {[1..n -> PostKinds] : n \in 0..Min(limit, MaxUpstream)}

\* The for loop over posts: the SubstackPost of every post that is processed
\* to the end.
PostsOf(pub, kinds) ==
    LET all == [i \in 1..Len(kinds) |->
                   [id |-> <<pub, i>>, publication_name |-> Strip(pub), kind |-> kinds[i]]]
        Free(post) == post.kind = "free"
    IN SelectSeq(all, Free)

\* substack_search up to the loop over publication_list
SubstackStart(req) ==
    /\ pPc = "idle"
    /\ pKind' = "substack"
    /\ pReq' = req
    /\ pPc' = "fetching"
    /\ pResolved' = [i \in 1..Len(req.ids) |-> Strip(req.ids[i])]
    /\ pUpstream' = [i \in 1..Len(req.ids) |-> <<>>]
    /\ pTasks' = [i \in 1..Len(req.ids) |-> Pending]
    /\ UNCHANGED <<pFetches, pResult, pError>>
    /\ UNCHANGED <<cacheVars, regVars, pageVars, trimVars, credVars, apiVars>>
    /\ UNCHANGED <<pFailure, pEnrich>>

\* The publication the loop is at: the first one not handled yet, 0 at the end.
NextPublication ==
    IF \E i \in 1..Len(pTasks) : ~pTasks[i].done
    THEN CHOOSE i \in 1..Len(pTasks) : ~pTasks[i].done /\ \A j \in 1..(i - 1) : pTasks[j].done
    ELSE 0

\* One iteration of "for pub in publication_list": the posts are fetched and
\* processed
SubstackFetch(kinds) ==
    /\ pKind = "substack" /\ pPc = "fetching" /\ NextPublication # 0
    /\ kinds \in PostLists(pReq.cap)
    /\ LET i == NextPublication
           posts == PostsOf(pReq.ids[i], kinds)
       IN /\ pUpstream' = [pUpstream EXCEPT ![i] = posts]
          /\ pTasks' = [pTasks EXCEPT ![i] = Done(posts)]
    /\ pFetches' = pFetches + 1
    /\ UNCHANGED <<pKind, pPc, pReq, pResolved, pResult, pError>>
    /\ UNCHANGED <<cacheVars, regVars, pageVars, trimVars, credVars, apiVars>>
    /\ UNCHANGED <<pFailure, pEnrich>>

\* One iteration of "for pub in publication_list": Newsletter(...) or the
\* fetch raises; except Exception: logger.error(...); continue
SubstackFetchFails ==
    /\ pKind = "substack" /\ pPc = "fetching" /\ NextPublication # 0
    /\ pTasks' = [pTasks EXCEPT ![NextPublication] = Done(<<>>)]
    /\ pFetches' = pFetches + 1
    /\ UNCHANGED <<pKind, pPc, pReq, pResolved, pUpstream, pResult, pError>>
    /\ UNCHANGED <<cacheVars, regVars, pageVars, trimVars, credVars, apiVars>>
    /\ pFailure' = "Exception"
    /\ UNCHANGED pEnrich

RECURSIVE Concat(_)
Concat(lists) == IF lists = <<>> THEN <<>> ELSE Head(lists) \o Concat(Tail(lists))

\* return results
SubstackReturns ==
    /\ pKind = "substack" /\ pPc = "fetching" /\ NextPublication = 0
    /\ pResult' = Concat(Results)
    /\ pPc' = "returned"
    /\ UNCHANGED <<pKind, pReq, pResolved, pUpstream, pTasks, pFetches, pError>>
    /\ UNCHANGED <<cacheVars, regVars, pageVars, trimVars, credVars, apiVars>>
    /\ UNCHANGED <<pFailure, pEnrich>>

(***************************************************************************)
(* Content endpoints: /youtube, /x, /substack, /news (api/main.py)         *)
(***************************************************************************)
Endpoints == {"youtube", "x", "substack", "news"}

\* The query parameters of a request that matter here; <<>> and "" stand for
\* a parameter that is absent (or empty). A query shorter than 3 characters
\* never reaches the endpoint.
ApiParams ==
    [query : Queries,
     channels : {<<>>, <<Str2("c", "d")>>},
     users : {<<>>, <<Str2("c", "d")>>},
     publications : {<<>>, <<Str2("c", "d")>>},
     char_cap : {NoCap, Cap(0), Cap(305), Cap(2 * VideoFixedJsonLen + 150)}]

NoParams ==
    [query |-> "", channels |-> <<>>, users |-> <<>>, publications |-> <<>>,
     char_cap |-> NoCap]

\* The identifier list an endpoint takes.
IdentifiersOf(name, params) ==
    CASE name = "youtube" -> params.channels
      [] name = "x" -> params.users
      [] name = "substack" -> params.publications
      [] name = "news" -> params.channels \o params.users

\* A test that asks the same of every endpoint: identifiers or a query.
SuppliedOrQuery(name, params) ==
    IdentifiersOf(name, params) # <<>> \/ ~Falsy(params.query)

\* channels or query / users or query / publications or query; in /news:
\* channels or users
Supplied(name, params) ==
    IF name = "news" THEN params.channels # <<>> \/ params.users # <<>>
    ELSE IdentifiersOf(name, params) # <<>> \/ ~Falsy(params.query)

\* len(f"{tweet}"): the length of a tweet's string form, which depends on the
\* tweet alone
TweetStrLen(tweet) == 100 * tweet.id + Len(tweet.user)

RECURSIVE SumStrLen(_)
SumStrLen(tweets) ==
    IF tweets = <<>> THEN 0 ELSE TweetStrLen(Head(tweets)) + SumStrLen(Tail(tweets))

\* len((",").join([f"{tweet}" for tweet in tweets]))
JoinedLen(tweets) ==
    SumStrLen(tweets) + (IF Len(tweets) > 0 THEN Len(tweets) - 1 ELSE 0)

\* A deduction that forgets the tweets.
Undeducted(char_cap, tweets) == char_cap

\* if tweets and char_cap is not None: char_cap -= len(...)
Deducted(char_cap, tweets) ==
    IF tweets # <<>> /\ ~IsNone(char_cap) THEN Cap(char_cap.value - JoinedLen(tweets))
    ELSE char_cap

\* The arguments the endpoints call the pipelines with.
XRequestOf(params) ==
    [ids |-> params.users, query |-> params.query, cap |-> MaxPerIdentifier,
     char_cap |-> NoCap, get_transcripts |-> FALSE, get_descriptions |-> FALSE,
     period_days |-> 3,
     end_date |-> "none"]

YoutubeRequestOf(name, params, char_cap) ==
    [ids |-> params.channels, query |-> params.query, cap |-> MaxPerIdentifier,
     char_cap |-> char_cap, get_transcripts |-> name # "news",
     get_descriptions |-> FALSE, period_days |-> 3,
     end_date |-> "valid"]

SubstackRequestOf(params) ==
    [ids |-> params.publications, query |-> params.query, cap |-> MaxPerIdentifier,
     char_cap |-> NoCap, get_transcripts |-> FALSE, get_descriptions |-> FALSE,
     period_days |-> 3,
     end_date |-> "none"]

ApiIdle ==
    /\ eName = "none"
    /\ ePc = "idle"
    /\ eParams = NoParams
    /\ eStatus = 0
    /\ eDetail = "none"
    /\ eTweets = <<>>
    /\ eCap = NoCap
    /\ eBody = <<>>

\* The first pipeline an accepted request calls.
FirstCall(name, params) ==
    IF name = "news" THEN (IF params.users # <<>> THEN "x" ELSE "youtube") ELSE name

\* An endpoint function up to its first await: the 400 of a request that
\* supplies nothing, else on to the first pipeline call.
EndpointStart(name, params) ==
    /\ ePc = "idle"
    /\ eName' = name
    /\ eParams' = params
    /\ eCap' = params.char_cap
    /\ IF ~Supplied(name, params)
       THEN /\ ePc' = "done"
            /\ eStatus' = 400
            /\ eDetail' = "must be provided"
       ELSE /\ ePc' = FirstCall(name, params)
            /\ UNCHANGED <<eStatus, eDetail>>
    /\ UNCHANGED <<eTweets, eBody>>
    /\ UNCHANGED <<cacheVars, regVars, pageVars, trimVars, pipeVars, credVars>>

\* await x_search(...) / youtube_search(...) / substack_search(...): the call
\* begins
CallX == ePc = "x" /\ XStart(XRequestOf(eParams))

CallYoutube == ePc = "youtube" /\ YoutubeStart(YoutubeRequestOf(eName, eParams, eCap))

CallSubstack == ePc = "substack" /\ SubstackStart(SubstackRequestOf(eParams))

\* The pipeline variables of a call that is over.
PipeCleared ==
    /\ pKind' = "none"
    /\ pPc' = "idle"
    /\ pReq' = NoRequest
    /\ pResolved' = <<>>
    /\ pUpstream' = <<>>
    /\ pTasks' = <<>>
    /\ pFetches' = 0
    /\ pResult' = <<>>
    /\ pError' = "none"
    /\ pFailure' = "none"
    /\ pEnrich' = {}

\* The awaited pipeline raised: an HTTPException becomes its response, any
\* other exception a 500
EndpointRaises ==
    /\ ePc \in {"x", "youtube", "substack"} /\ pPc = "raised"
    /\ ePc' = "done"
    /\ eStatus' = IF pError = "HTTPException" THEN 400 ELSE 500
    /\ eDetail' = pError
    /\ UNCHANGED <<eName, eParams, eTweets, eCap, eBody>>
    /\ UNCHANGED <<cacheVars, regVars, pageVars, trimVars, pipeVars, credVars>>

\* /youtube, /x, /substack: return await ..._search(...)
EndpointReturns ==
    /\ eName # "news" /\ ePc \in {"x", "youtube", "substack"} /\ pPc = "returned"
    /\ ePc' = "done"
    /\ eStatus' = 200
    /\ eBody' = pResult
    /\ UNCHANGED <<eName, eParams, eTweets, eCap, eDetail>>
    /\ UNCHANGED <<cacheVars, regVars, pageVars, trimVars, pipeVars, credVars>>

\* /news: x_search returned; the budget is reduced by the tweets, then either
\* youtube_search is called or tweets + [] returned
NewsAfterX ==
    /\ eName = "news" /\ ePc = "x" /\ pPc = "returned"
    /\ eTweets' = pResult
    /\ eCap' = Deducted(eCap, pResult)
    /\ IF eParams.channels # <<>>
       THEN /\ ePc' = "youtube"
            /\ UNCHANGED <<eStatus, eBody>>
       ELSE /\ ePc' = "done"
            /\ eStatus' = 200
            /\ eBody' = pResult
    /\ PipeCleared
    /\ UNCHANGED <<eName, eParams, eDetail>>
    /\ UNCHANGED <<cacheVars, regVars, pageVars, trimVars, credVars>>

\* /news: return tweets + videos
NewsReturns ==
    /\ eName = "news" /\ ePc = "youtube" /\ pPc = "returned"
    /\ ePc' = "done"
    /\ eStatus' = 200
    /\ eBody' = eTweets \o pResult
    /\ UNCHANGED <<eName, eParams, eTweets, eCap, eDetail>>
    /\ UNCHANGED <<cacheVars, regVars, pageVars, trimVars, pipeVars, credVars>>

(***************************************************************************)
(* Registry endpoint /source-media (api/main.py get_source_media)          *)
(***************************************************************************)
\* sources: str | None
NoSources == [given |-> FALSE, value |-> <<>>]
Sources(text) == [given |-> TRUE, value |-> text]

\* The values of the sources parameter tried: absent, one name, two names,
\* a name of no source, and texts that merely contain the name of a source.
SourcesParams ==
    { NoSources,
      Sources(Str3("T", "w", "o")),
      Sources(Str3("O", "n", "e") \o <<",">> \o Str2("Z", "e")),
      Sources(Str2("O", "h") \o <<",">> \o Str3("O", "n", "e")),
      Sources(Str2("Z", "z")),
      Sources(Str3("T", "w", "o") \o <<"s">>),
      Sources(Str3("O", "h", "m")) }

\* item[col] if item[col] != "n/a" else None
NoneH == <<"None">>
OrNone(handle) == IF handle # NA THEN handle ELSE NoneH

\* SourceMedia(Name=..., Youtube=..., X=..., Substack=...): the model has the
\* fields Name, Youtube and X (api/store.py), the Substack argument is dropped.
SourceMediaOf(item) ==
    [Name |-> item.Name, Youtube |-> OrNone(item.Youtube), X |-> OrNone(item.X)]

\* if sources and item["Name"] not in sources: continue
Skipped(item, sources) ==
    sources.given /\ sources.value # <<>> /\ ~Contains(sources.value, item.Name)

RECURSIVE SelectedSources(_, _)
\* the loop over data of get_source_media
SelectedSources(data, sources) ==
    IF data = <<>> THEN <<>>
    ELSE (IF Skipped(Head(data), sources) THEN <<>> ELSE <<SourceMediaOf(Head(data))>>)
         \o SelectedSources(Tail(data), sources)

\* GET /source-media?sources=...: the registry is read with get_data() and the
\* selected sources are the response; an exception of get_data is a 500.
GetSourceMedia(sources) ==
    /\ nReads < MaxReads
    /\ nReads' = nReads + 1
    /\ gResult' = JsonLoad(combined)
    /\ eName' = "source-media"
    /\ eParams' = [sources |-> sources]
    /\ ePc' = "done"
    /\ IF JsonLoad(combined).kind = "data"
       THEN /\ eStatus' = 200
            /\ eBody' = SelectedSources(JsonLoad(combined).rows, sources)
            /\ eDetail' = "none"
       ELSE /\ eStatus' = 500
            /\ eBody' = <<>>
            /\ eDetail' = JsonLoad(combined).kind
    /\ UNCHANGED <<eTweets, eCap>>
    /\ UNCHANGED <<combined, uPc, uData, uOld, nRefresh>>
    /\ UNCHANGED <<cacheVars, trimVars, pipeVars, credVars, pageVars>>

(***************************************************************************)
(* Tweet pagination: _fetch_tweets and the count x_search gives it         *)
(* (api/x.py)                                                              *)
(***************************************************************************)
\* while (len(_tweets) == 20): the size of a full page of the upstream search.
PageSize == 20

\* A page of the upstream search holds no more than a full page.
PageSizes == 0..PageSize

\* max_tweets_per_user values a caller passes: none, one, the default of a
\* full page, and more than a page.
PerUserChoices == {0, 1, PageSize, PageSize + 5}

\* count = len(users_arr) * max_tweets_per_user if users_arr else max_tweets_per_user
CountOf(users_arr_len, max_tweets_per_user) ==
    IF users_arr_len > 0 THEN users_arr_len * max_tweets_per_user ELSE max_tweets_per_user

\* The loop going on for one page after count tweets are accumulated.
PagingOnePageMore(last, len, count) == last = PageSize /\ len < count + PageSize

\* while (len(_tweets) == 20) and len(tweets) < count
ContinuePaging(last, len, count) == last = PageSize /\ len < count

PageIdle ==
    /\ fPc = "idle"
    /\ fCount = 0
    /\ fLen = 0
    /\ fLast = 0
    /\ fNext = 0
    /\ fSleeps = 0

\* x_search computes count and calls _fetch_tweets(search, count): tweets = [].
FetchStart(users_arr_len, max_tweets_per_user) ==
    /\ fPc = "idle"
    /\ fPc' = "searching"
    /\ fCount' = CountOf(users_arr_len, max_tweets_per_user)
    /\ UNCHANGED <<fLen, fLast, fNext, fSleeps>>
    /\ UNCHANGED <<cacheVars, trimVars, pipeVars, credVars, apiVars, regVars>>

\* _tweets = await x_client.search_tweet(...); tweets.extend(_tweets); then the
\* loop condition is tested for the first time.
FirstPage(size) ==
    /\ fPc = "searching"
    /\ fLast' = size
    /\ fLen' = fLen + size
    /\ fPc' = IF ContinuePaging(size, fLen + size, fCount) THEN "paging" ELSE "returned"
    /\ UNCHANGED <<fCount, fNext, fSleeps>>
    /\ UNCHANGED <<cacheVars, trimVars, pipeVars, credVars, apiVars, regVars>>

\* In the loop: _tweets = await _tweets.next(); tweets.extend(_tweets).
NextPage(size) ==
    /\ fPc = "paging"
    /\ fLast' = size
    /\ fLen' = fLen + size
    /\ fNext' = fNext + 1
    /\ fPc' = "sleeping"
    /\ UNCHANGED <<fCount, fSleeps>>
    /\ UNCHANGED <<cacheVars, trimVars, pipeVars, credVars, apiVars, regVars>>

\* In the loop: await asyncio.sleep(1); then the loop condition is tested again.
PageSleep ==
    /\ fPc = "sleeping"
    /\ fSleeps' = fSleeps + 1
    /\ fPc' = IF ContinuePaging(fLast, fLen, fCount) THEN "paging" ELSE "returned"
    /\ UNCHANGED <<fCount, fLen, fLast, fNext>>
    /\ UNCHANGED <<cacheVars, trimVars, pipeVars, credVars, apiVars, regVars>>

\* search_tweet or next() raises: _fetch_tweets ends with the exception.
PageRaises ==
    /\ fPc \in {"searching", "paging"}
    /\ fPc' = "raised"
    /\ UNCHANGED <<fCount, fLen, fLast, fNext, fSleeps>>
    /\ UNCHANGED <<cacheVars, trimVars, pipeVars, credVars, apiVars, regVars>>

\* x_search took the tweets, or the exception; the call is over.
FetchDone ==
    /\ fPc \in {"returned", "raised"}
    /\ fPc' = "idle"
    /\ fCount' = 0
    /\ fLen' = 0
    /\ fLast' = 0
    /\ fNext' = 0
    /\ fSleeps' = 0
    /\ UNCHANGED <<cacheVars, trimVars, pipeVars, credVars, apiVars, regVars>>

(***************************************************************************)
(* Specifications                                                          *)
(***************************************************************************)
InitCache ==
    /\ \E t \in TtlChoices : CacheIdle(t)
    /\ TrimIdle
    /\ PipeIdle
    /\ CredIdle
    /\ ApiIdle
    /\ RegIdle
    /\ PageIdle

NextCache ==
    \/ \E c \in Callers, k \in Keys : Call(c, k)
    \/ \E c \in Callers : ProducerReturns(c)
    \/ \E c \in Callers : ProducerRaises(c)
    \/ \E c \in Callers : Resolve(c)
    \/ \E t \in TimePoints : Tick(t - clock)

SpecCache == InitCache /\ [][NextCache]_vars

\* The cache with callers that may time out while they await a computation;
\* the calls are made at one instant, with a ttl of 0 or of an hour.
NextCancel ==
    \/ \E c \in Callers, k \in Keys : Call(c, k)
    \/ \E c \in Callers : ProducerReturns(c)
    \/ \E c \in Callers : ProducerRaises(c)
    \/ \E c \in Callers : Resolve(c)
    \/ \E c \in Callers : Timeout(c)

SpecCancel == InitCache /\ [][NextCancel]_vars

\* A call of the trimming step of _process_video_results ("process") or of
\* _filter_by_char_cap itself ("filter") on any list and budget.
InitTrim ==
    /\ CacheIdle(CacheTtl)
    /\ tIn \in VideoLists
    /\ tCap \in CapChoices(tIn)
    /\ tVideos = tIn
    /\ tEvicted = <<>>
    /\ tCalled = FALSE
    /\ tPc \in {"process", "filter"}
    /\ PipeIdle
    /\ CredIdle
    /\ ApiIdle
    /\ RegIdle
    /\ PageIdle

NextTrim ==
    \/ ProcessTrims
    \/ ProcessSkips
    \/ FilterEnter
    \/ FilterPop
    \/ FilterRaises
    \/ FilterReturns

SpecTrim == InitTrim /\ [][NextTrim]_vars

\* One call of youtube_search or of x_search, with any arguments and any
\* answers of upstream.
InitPipe ==
    /\ CacheIdle(CacheTtl)
    /\ TrimIdle
    /\ PipeIdle
    /\ CredIdle
    /\ ApiIdle
    /\ RegIdle
    /\ PageIdle

RECURSIVE TotalLen(_)
TotalLen(lists) == IF lists = <<>> THEN 0 ELSE Len(Head(lists)) + TotalLen(Tail(lists))

\* The steps of a pipeline call that has begun.
PipeSteps ==
    \/ \E i \in 1..Len(pTasks), times \in UpstreamTimes : YoutubeFetch(i, times)
    \/ \E i \in 1..Len(pTasks) : YoutubeFetchFails(i)
    \/ \E tick \in 1..(TotalLen(Results) + 1) : YoutubeProcess(tick)
    \/ YoutubeSortRaises
    \/ ProcessTrims
    \/ ProcessSkips
    \/ FilterEnter
    \/ FilterPop
    \/ FilterRaises
    \/ FilterReturns
    \/ YoutubeReturns
    \/ YoutubeTrimRaises
    \/ \E tweets \in TweetLists(pResolved) : XFetch(tweets)
    \/ \E error \in XErrors : XFetchFails(error)
    \/ \E kinds \in PostLists(MaxPerIdentifier) : SubstackFetch(kinds)
    \/ SubstackFetchFails
    \/ SubstackReturns

NextPipe ==
    \/ \E req \in YoutubeRequests : YoutubeStart(req)
    \/ \E req \in XRequests : XStart(req)
    \/ \E req \in SubstackRequests : SubstackStart(req)
    \/ PipeSteps

SpecPipe == InitPipe /\ [][NextPipe]_vars

\* Calls of x_search that miss the cache, one after the other, and calls of
\* the cookie webhook at any moment between their steps.
CredRequests ==
    {req \in XRequests :
        req.ids = <<Str2("c", "d")>> /\ req.cap = 1 /\ req.period_days = 3
            /\ req.end_date = "none"}

InitCred ==
    /\ CacheIdle(CacheTtl)
    /\ TrimIdle
    /\ PipeIdle
    /\ CredIdle
    /\ ApiIdle
    /\ RegIdle
    /\ PageIdle

\* The call is over; the next one may begin.
NextCall ==
    /\ pPc \in {"returned", "raised"}
    /\ PipeCleared
    /\ UNCHANGED <<cacheVars, regVars, pageVars, trimVars, credVars, apiVars>>

NextCred ==
    \/ \E payload \in Payloads : ReceiveCookies(payload)
    \/ \E req \in CredRequests : XStart(req)
    \/ \E tweets \in TweetLists(pResolved) : XFetch(tweets)
    \/ \E error \in XErrors : XFetchFails(error)
    \/ NextCall

SpecCred == InitCred /\ [][NextCred]_vars

\* One request to a content endpoint, with the pipeline calls it makes.
InitApi ==
    /\ CacheIdle(CacheTtl)
    /\ TrimIdle
    /\ PipeIdle
    /\ CredIdle
    /\ ApiIdle
    /\ RegIdle
    /\ PageIdle

NextApi ==
    \/ \E name \in Endpoints, params \in ApiParams : EndpointStart(name, params)
    \/ CallX
    \/ CallYoutube
    \/ CallSubstack
    \/ EndpointRaises
    \/ EndpointReturns
    \/ NewsAfterX
    \/ NewsReturns
    \/ PipeSteps

SpecApi == InitApi /\ [][NextApi]_vars

\* Calls of youtube_search that ask for descriptions or transcripts, with
\* enrichments that fail. The channel pages list up to MaxUpstream videos
\* of one age; a query is given, so nothing is sorted.
EnrichRequests ==
    [ids : {<<Str2("c", "d")>>, <<Str2("n", "a"), Str2("c", "d")>>}, query : {"q"},
     cap : 1..MaxPerIdentifier, char_cap : {NoCap},
     get_transcripts : BOOLEAN, get_descriptions : BOOLEAN,
     period_days : {3}, end_date : {"valid"}]

EnrichTimes == {[i \in 1..n |-> Ago(2, "hour")] : n \in 0..MaxUpstream}

NextEnrich ==
    \/ \E req \in EnrichRequests : YoutubeStart(req)
    \/ \E i \in 1..Len(pTasks), times \in EnrichTimes : YoutubeFetch(i, times)
    \/ \E i \in 1..Len(pTasks), times \in EnrichTimes, k \in 1..MaxUpstream :
           \E f \in EnrichFailures(TRUE, TRUE) : YoutubeEnrichFails(i, times, k, f)
    \/ \E i \in 1..Len(pTasks) : YoutubeFetchFails(i)
    \/ YoutubeProcess(1)
    \/ ProcessSkips
    \/ YoutubeReturns

SpecEnrich == InitPipe /\ [][NextEnrich]_vars

\* x_search behind its cache, @async_threadsafe_ttl_cache(ttl=3600): callers
\* make the same call within the hour, the producer of a miss is x_search.
XKey == <<"x_search", "a">>

\* The arguments of the calls.
MemoRequest ==
    [ids |-> <<Str2("c", "d")>>, query |-> "q", cap |-> 1, char_cap |-> NoCap,
     get_transcripts |-> FALSE, get_descriptions |-> FALSE, period_days |-> 3,
     end_date |-> "none"]

\* The producer of a miss begins: x_search is entered.
MemoStart ==
    /\ \E c \in Callers : cpc[c] = "computing" /\ ckey[c] = XKey
    /\ XStart(MemoRequest)

\* x_search returned: the cache has its producer's value.
MemoReturns(c) == pKind = "x" /\ pPc = "returned" /\ ckey[c] = XKey /\ ProducerReturns(c)

\* x_search raised: the cache has its producer's failure.
MemoRaises(c) == pKind = "x" /\ pPc = "raised" /\ ckey[c] = XKey /\ ProducerRaises(c)

\* The cache took the outcome of x_search; the call is over.
MemoDone ==
    /\ \A c \in Callers : cpc[c] # "computing"
    /\ NextCall

NextMemo ==
    \/ \E c \in Callers : Call(c, XKey)
    \/ MemoStart
    \/ \E tweets \in TweetLists(pResolved) : XFetch(tweets)
    \/ \E error \in XErrors : XFetchFails(error)
    \/ \E c \in Callers : MemoReturns(c)
    \/ \E c \in Callers : MemoRaises(c)
    \/ MemoDone
    \/ \E c \in Callers : Resolve(c)

SpecMemo == InitCred /\ [][NextMemo]_vars

\* _fetch_tweets, call after call. Every await of it ends: the upstream
\* answers with a page or the client raises, and the pause is one second.
PageSteps ==
    \/ \E size \in PageSizes : FirstPage(size)
    \/ \E size \in PageSizes : NextPage(size)
    \/ PageSleep
    \/ PageRaises

NextPaging ==
    \/ \E n \in 0..MaxUsersArr, m \in PerUserChoices : FetchStart(n, m)
    \/ \E size \in PageSizes : FirstPage(size)
    \/ \E size \in PageSizes : NextPage(size)
    \/ PageSleep
    \/ PageRaises
    \/ FetchDone

SpecPaging == InitCred /\ [][NextPaging]_vars /\ WF_vars(PageSteps)

\* Registry readers beside refreshes of the registry file.
InitReg ==
    /\ CacheIdle(CacheTtl)
    /\ TrimIdle
    /\ PipeIdle
    /\ CredIdle
    /\ ApiIdle
    /\ RegIdle
    /\ PageIdle

NextReg ==
    \/ \E csv \in CsvVersions : RefreshCompute(csv)
    \/ RefreshOpen
    \/ RefreshFlush
    \/ RefreshClose
    \/ GetData

SpecReg == InitReg /\ [][NextReg]_vars

\* Requests to /source-media, the registry being refreshed now and then.
NextMedia ==
    \/ \E csv \in CsvVersions : RefreshCompute(csv)
    \/ RefreshOpen
    \/ RefreshFlush
    \/ RefreshClose
    \/ \E sources \in SourcesParams : GetSourceMedia(sources)

SpecMedia == InitReg /\ [][NextMedia]_vars

(***************************************************************************)
(* Claims about the cache                                                  *)
(***************************************************************************)
Active(c) == cpc[c] \in {"computing", "waiting"}

\* C1: single-flight. For every key at most one producer computation is in
\* flight; every caller that arrives while one is in flight waits on that very
\* run, and every caller that was handed the outcome of a computation holds
\* the outcome of the one run it started or joined.
C1_SingleFlight ==
    /\ \A k \in Keys : Cardinality(inflight[k]) <= 1
    /\ \A k \in Keys : Cardinality({c \in Callers : cpc[c] = "computing" /\ ckey[c] = k}) <= 1
    /\ \A c \in Callers : Active(c) =>
            /\ inflight[ckey[c]] # {}
            /\ cjoined[c] = runs[ckey[c]]
    /\ \A c \in Callers : (cpc[c] = "got" /\ ckind[c] \in {"miss", "join"}) =>
            /\ cres[c].run = cjoined[c]
            /\ cres[c].kind \in {"value", "failure"}

\* Two concurrent callers of one key resolved with the single result of run 1.
C1_Witness ==
    \E c1, c2 \in Callers :
        /\ c1 # c2 /\ ckey[c1] = ckey[c2]
        /\ cpc[c1] = "got" /\ cpc[c2] = "got"
        /\ ckind[c1] = "miss" /\ ckind[c2] = "join"
        /\ cres[c1] = cres[c2] /\ cres[c1].kind = "value"
        /\ runs[ckey[c1]] = 1

CallStep(c, k) == cpc[c] = "idle" /\ cpc'[c] # "idle" /\ ckey'[c] = k

\* C2: TTL expiry. A lookup that finds an entry of age < ttl returns its value
\* at once and invokes no producer; a lookup that finds an entry of age >= ttl
\* (ttl = 0 included) drops it and invokes the producer again; and an entry
\* disappears only in a lookup of its key, never by the passing of time.
C2_TtlExpiry ==
    [][ /\ \A c \in Callers, k \in Keys :
             (CallStep(c, k) /\ entries[k].state = "stored") =>
                 IF clock - entries[k].created_at < ttl
                 THEN /\ runs' = runs
                      /\ entries' = entries
                      /\ cpc'[c] = "got"
                      /\ cres'[c] = entries[k].value
                 ELSE /\ runs'[k] = runs[k] + 1
                      /\ entries'[k].state = "absent"
                      /\ cpc'[c] = "computing"
        /\ \A k \in Keys :
             (entries[k].state = "stored" /\ entries'[k].state = "absent") =>
                 \E c \in Callers : CallStep(c, k)
      ]_vars

\* One caller was served a cached value younger than the ttl while another, later,
\* found the same key's entry expired and started the producer again.
C2_Witness ==
    \E c1, c2 \in Callers :
        /\ c1 # c2 /\ ckey[c1] = ckey[c2]
        /\ ckind[c1] = "hit" /\ cage[c1] >= 0 /\ cage[c1] < ttl
        /\ ckind[c2] = "miss" /\ cage[c2] >= ttl /\ cage[c2] >= 0
        /\ runs[ckey[c1]] = 2

FailStep(c, k) ==
    cpc[c] = "computing" /\ ckey[c] = k /\ cpc'[c] = "got" /\ cres'[c].kind = "failure"

\* C3: failure handling. When the producer of a key fails, every caller waiting
\* on the key is handed that same failure, the key is left without an entry,
\* and a call that finds the key without entry and without computation in
\* flight starts a fresh computation.
C3_FailureNotCached ==
    [][ /\ \A c \in Callers, k \in Keys :
             FailStep(c, k) =>
                 /\ \A w \in Callers :
                        (ckey[w] = k /\ cpc[w] = "waiting") =>
                            (cpc'[w] = "got" /\ cres'[w] = cres'[c])
                 /\ entries'[k].state = "absent"
                 /\ inflight'[k] = {}
        /\ \A c \in Callers, k \in Keys :
             (CallStep(c, k) /\ entries[k].state = "absent" /\ inflight[k] = {}) =>
                 /\ cpc'[c] = "computing"
                 /\ runs'[k] = runs[k] + 1
      ]_vars

\* A runner and a waiter hold the same failure of run 1, the key has no entry,
\* and a third caller has started run 2 for it.
C3_Witness ==
    \E c1, c2, c3 \in Callers :
        /\ c1 # c2 /\ ckey[c1] = ckey[c2] /\ ckey[c3] = ckey[c1]
        /\ cpc[c1] = "got" /\ cpc[c2] = "got"
        /\ ckind[c1] = "miss" /\ ckind[c2] = "join"
        /\ cres[c1] = cres[c2] /\ cres[c1].kind = "failure"
        /\ cpc[c3] = "computing" /\ cjoined[c3] = 2 /\ cage[c3] = NoAge

\* Caller c times out in this step.
TimeoutStep(c) == cpc[c] \in {"computing", "waiting"} /\ cpc'[c] \in {"detached", "dropped"}

\* The computation caller c started for key k ends in this step.
EndStep(c, k) == cpc[c] \in {"computing", "detached"} /\ ckey[c] = k /\ cpc'[c] \in {"got", "dropped"}

\* The entry of key k is absent or complete: a value of a run that was made.
EntryValid(k) ==
    \/ entries[k] = AbsentEntry
    \/ /\ entries[k].state = "stored"
       /\ entries[k].value.kind = "value"
       /\ entries[k].value.run \in 1..runs[k]
       /\ entries[k].created_at \in 0..clock

\* C21: cancellation safety. A caller's timeout changes neither the entries
\* nor the computations in flight nor any other caller; every caller still
\* waiting has the run it joined in flight; when that run ends, also after its
\* starter timed out, every remaining waiter of the key is handed its outcome;
\* and the key's entry is always absent or a complete value.
C21_CancellationSafety ==
    [][ /\ \A c \in Callers :
             TimeoutStep(c) =>
                 /\ entries' = entries /\ inflight' = inflight /\ runs' = runs
                 /\ \A x \in Callers \ {c} : cpc'[x] = cpc[x] /\ cres'[x] = cres[x]
        /\ \A c \in Callers :
             cpc'[c] = "waiting" =>
                 /\ inflight'[ckey'[c]] # {}
                 /\ cjoined'[c] = runs'[ckey'[c]]
        /\ \A c \in Callers, k \in Keys :
             EndStep(c, k) =>
                 /\ \A w \in Callers :
                        (ckey[w] = k /\ cpc[w] = "waiting") =>
                            /\ cpc'[w] = "got"
                            /\ cres'[w].run = cjoined[c]
                            /\ cres'[w].kind \in {"value", "failure"}
                 /\ entries'[k].state = "stored" =>
                        (entries'[k].value = [kind |-> "value", run |-> cjoined[c]])
        /\ \A k \in Keys : EntryValid(k)'
      ]_vars

\* The starter of run 1 timed out, the run went on and returned, a waiter of
\* the key holds its value and the key has a complete entry.
C21_Witness ==
    \E c1, c2 \in Callers :
        /\ c1 # c2 /\ ckey[c1] = ckey[c2]
        /\ cpc[c1] = "dropped" /\ ckind[c1] = "miss" /\ cres[c1] = NoResult
        /\ cpc[c2] = "got" /\ ckind[c2] = "join"
        /\ cres[c2] = [kind |-> "value", run |-> 1]
        /\ entries[ckey[c1]].state = "stored" /\ entries[ckey[c1]].value = cres[c2]

(***************************************************************************)
(* Claims about the trimmer                                                *)
(***************************************************************************)
Range(seq) == {seq[i] : i \in 1..Len(seq)}

\* C4: budget trimming. Each iteration removes exactly one item; when
\* _filter_by_char_cap returns for a given budget, the serialized size of its
\* result is at most the budget; and every item removed had a transcript at
\* least as long as that of every item still in the list.
C4_TrimToBudget ==
    /\ Len(tVideos) + Len(tEvicted) = Len(tIn)
    /\ (tPc = "returned" /\ tCalled /\ tCap.given) => SerializedLen(tVideos) <= tCap.value
    /\ \A r \in Range(tEvicted), v \in Range(tVideos) : r.transcript >= v.transcript

\* The trimmer returned after evicting a long transcript and keeping a shorter one.
C4_Witness ==
    /\ tPc = "returned" /\ tCalled /\ tCap.given
    /\ tEvicted # <<>> /\ tVideos # <<>>
    /\ \E r \in Range(tEvicted), v \in Range(tVideos) :
           r.transcript > v.transcript /\ r.id > v.id
    /\ SerializedLen(tIn) > tCap.value

\* C5 (as claimed): for every list and every integer budget the trimming loop
\* stops by returning a list; it never ends in an exception.
C5_AlwaysReturns == tPc # "raised"

IsSubsequence(sub, seq) ==
    /\ \A i \in 1..Len(sub) : sub[i].id \in 1..Len(seq) /\ seq[sub[i].id] = sub[i]
    /\ \A i, j \in 1..Len(sub) : i < j => sub[i].id < sub[j].id

\* C6: the trimmer never reorders. At every point of the trimming, and so on
\* return, the list is a subsequence of the input.
C6_NeverReorders == IsSubsequence(tVideos, tIn)

\* The trimmer returned after popping an item that was not the last one.
C6_Witness ==
    /\ tPc = "returned" /\ tEvicted # <<>>
    /\ Len(tVideos) >= 2
    /\ \E r \in Range(tEvicted), v \in Range(tVideos) : r.id < v.id

\* C7: without a budget the trimming step returns the merged list unchanged,
\* whether it is reached through _process_video_results or called directly.
C7_NoBudgetNoChange ==
    ~tCap.given => (tVideos = tIn /\ tEvicted = <<>> /\ tPc # "raised" /\ tPc # "loop")

\* The trimming step returned a non-empty list for an absent budget.
C7_Witness == ~tCap.given /\ tPc = "returned" /\ Len(tVideos) >= 2 /\ tVideos = tIn

\* The payload length of a video, an absent transcript counting as 0.
PayloadLen(v) == IF v.transcript = NoneT THEN 0 ELSE v.transcript

\* C25: an absent payload counts as length 0. The trimmer does not fail when
\* items have a transcript of None, and what it pops is at least as long as
\* what it keeps, an absent transcript compared as length 0.
C25_AbsentPayloadIsZero ==
    /\ tPc = "raised" => ~LenRaises(tVideos)
    /\ \A r \in Range(tEvicted), v \in Range(tVideos) : PayloadLen(r) >= PayloadLen(v)

(***************************************************************************)
(* Claims about the search pipelines                                       *)
(***************************************************************************)
\* The items of the result that belong to a channel / to an author.
OfChannel(result, channel) ==
    LET Mine(v) == v.channel = channel IN SelectSeq(result, Mine)

OfAuthor(tweets, user) ==
    LET Mine(t) == t.user = user IN SelectSeq(tweets, Mine)

Ids(items) == [i \in 1..Len(items) |-> items[i].id]

\* What the cap leaves of the items available upstream.
FirstOf(available, cap) == SubSeq(available, 1, Min(cap, Len(available)))

\* C8: per-identifier cap. A pipeline call that returned without a character
\* budget holds, for every resolved identifier, at most cap items of it, and
\* they are the first min(cap, available) items upstream listed for it: in
\* upstream order for the authors of x_search and for the channels of
\* youtube_search called with a query, in sorted order without a query.
C8_PerIdentifierCap ==
    (pPc = "returned" /\ ~Truthy(pReq.char_cap)) =>
        /\ pKind = "youtube" =>
              \A i \in 1..Len(pResolved) :
                  LET mine == Ids(OfChannel(pResult, pResolved[i]))
                      first == Ids(FirstOf(pUpstream[i], pReq.cap))
                  IN /\ Len(mine) <= pReq.cap
                     /\ Len(mine) = Len(first)
                     /\ Range(mine) = Range(first)
                     /\ ~Falsy(pReq.query) => mine = first
        /\ pKind = "x" =>
              \A a \in Authors :
                  /\ Len(OfAuthor(pResult, a)) <= pReq.cap
                  /\ OfAuthor(pResult, a) = FirstOf(OfAuthor(pUpstream[1], a), pReq.cap)

\* The same for calls with a cap of at least one.
PositiveCapIsKept == pReq.cap >= 1 => C8_PerIdentifierCap

\* Identifiers were given, the arguments are valid, and no identifier
\* resolves against the registry.
NoneResolves ==
    /\ pKind \in {"youtube", "x"}
    /\ pReq.ids # <<>>
    /\ pKind = "youtube" => FilterChannels(NormalizeChannels(pReq.ids)) = <<>>
    /\ pKind = "x" => FilterUsers(NormalizeUsers(pReq.ids)) = <<>> /\ ~ValidateRaises(pReq)

\* C9: empty resolution. A pipeline call whose identifiers were given and of
\* which none resolves makes no upstream fetch, raises nothing, and returns
\* the empty list.
C9_EmptyResolution ==
    (pKind # "none" /\ NoneResolves) =>
        /\ pFetches = 0
        /\ pPc # "raised"
        /\ pPc = "returned" => pResult = <<>>

\* The same for youtube_search alone.
YoutubeEmptyResolution == pKind = "youtube" => C9_EmptyResolution

\* time the publish time of a video parses to, against one fetch time
PublishedAt(video) == SortKey(video, RelativeBase)

\* The items are in the order upstream listed them in.
KeepsUpstreamOrder(sub, upstream) ==
    /\ \A j \in 1..Len(sub) :
          sub[j].id[2] \in 1..Len(upstream) /\ upstream[sub[j].id[2]].id = sub[j].id
    /\ \A j, k \in 1..Len(sub) : j < k => sub[j].id[2] < sub[k].id[2]

\* C10: freshness sort. In the list youtube_search returns, the items of each
\* channel are in descending order of their parsed publish time ("Streamed "
\* stripped) when no query was given, and in the order upstream listed them in
\* when a query was given.
C10_FreshnessSort ==
    (pKind = "youtube" /\ pPc = "returned") =>
        \A i \in 1..Len(pResolved) :
            LET sub == OfChannel(pResult, pResolved[i])
            IN IF Falsy(pReq.query)
               THEN \A j, k \in 1..Len(sub) :
                        j < k => PublishedAt(sub[j]) >= PublishedAt(sub[k])
               ELSE KeepsUpstreamOrder(sub, pUpstream[i])

\* A call without query returned, for some channel, "2 hours ago" before
\* "Streamed 1 day ago" although upstream listed them the other way round.
C10_Witness ==
    /\ pKind = "youtube" /\ pPc = "returned" /\ Falsy(pReq.query)
    /\ \E i \in 1..Len(pResolved) :
          LET sub == OfChannel(pResult, pResolved[i])
          IN /\ Len(sub) = 2
             /\ sub[1].publish_time = Ago(2, "hour")
             /\ sub[2].publish_time = StreamedAgo(1, "day")
             /\ sub[1].id[2] > sub[2].id[2]

\* A call with a query returned two items of one channel.
QueryKeepsOrderWitness ==
    /\ pKind = "youtube" /\ pPc = "returned" /\ ~Falsy(pReq.query)
    /\ \E i \in 1..Len(pResolved) : Len(OfChannel(pResult, pResolved[i])) = 2

\* The place in the call's resolved identifiers of the identifier an item of
\* the result belongs to.
IdentifierOf(item) ==
    CASE pKind = "youtube" -> item.channel
      [] pKind = "x" -> FromClause(item.user)
      [] pKind = "substack" -> item.publication_name

IdentifierIndex(item) ==
    CHOOSE i \in 1..Len(pResolved) :
        /\ pResolved[i] = IdentifierOf(item)
        /\ \A j \in 1..(i - 1) : pResolved[j] # IdentifierOf(item)

\* C11: merge order. The list a pipeline call returns for its resolved
\* identifiers is the concatenation of the identifiers' sublists in the order
\* of the identifiers: no item comes before an item of an identifier listed
\* earlier.
C11_MergeOrder ==
    (pPc = "returned" /\ pResolved # <<>>) =>
        \A j, k \in 1..Len(pResult) :
            j < k => IdentifierIndex(pResult[j]) <= IdentifierIndex(pResult[k])

\* The same for youtube_search and substack_search alone.
YoutubeMergeOrder == pKind \in {"youtube", "substack"} => C11_MergeOrder

\* The tasks of youtube_search that returned a list.
DoneTasks == {i \in 1..Len(pTasks) : pTasks[i].done}

\* A channel's page fetch was made and did not return a list.
FetchFailed ==
    pKind = "youtube" /\ pFetches > Cardinality(DoneTasks) /\ pFailure = "HTTPException"

\* C12: partial upstream failure. When the fetch of one channel failed while
\* the fetch of another returned items, no exception reaches the caller of
\* youtube_search, and what it returns are the items of the fetches that
\* succeeded.
C12_PartialFailure ==
    (FetchFailed /\ \E i \in DoneTasks : pTasks[i].items # <<>>) =>
        /\ pPc # "raised"
        /\ pPc = "returned" =>
              \A i \in DoneTasks : Ids(OfChannel(pResult, pResolved[i])) = Ids(pTasks[i].items)

\* C13: youtube_search hands the HTTPException of a failed channel page fetch
\* to its caller and returns no result.
C13_FetchFailurePropagates ==
    FetchFailed => pPc = "raised" /\ pError = "HTTPException" /\ pResult = <<>>

\* The fetch of the second channel failed after the first returned a video.
C13_Witness ==
    /\ FetchFailed /\ pPc = "raised"
    /\ Len(pTasks) = 2 /\ pTasks[1].done /\ pTasks[1].items # <<>> /\ ~pTasks[2].done

\* The arguments other than identifiers and query pass validation.
OtherwiseValid == pReq.period_days > 1 /\ pReq.end_date # "invalid"

\* C14: invalid request. A pipeline call with neither identifiers nor query
\* raises the invalid-request error (ValueError) before any upstream fetch; a
\* call with a query and no identifiers, otherwise valid, does not raise it.
C14_InvalidRequest ==
    /\ (pKind # "none" /\ pReq.ids = <<>> /\ Falsy(pReq.query)) =>
          pPc = "raised" /\ pError = "ValueError" /\ pFetches = 0
    /\ (pKind # "none" /\ pReq.ids = <<>> /\ ~Falsy(pReq.query) /\ OtherwiseValid) =>
          ~(pPc = "raised" /\ pError = "ValueError")

\* The same for x_search alone.
XInvalidRequest == pKind = "x" => C14_InvalidRequest

\* The registry column of the pipeline's platform.
Handle(row) == IF pKind = "youtube" THEN row.Youtube ELSE row.X

\* The handles of the platform's column that name an account.
RealHandles == {Handle(Data[r]) : r \in {q \in 1..Len(Data) : Usable(Handle(Data[q]))}}

\* The raw identifier is, case-insensitively, a substring of the handle.
MatchesInsensitive(id, handle) == Contains(Lower(handle), Lower(StripAt(id)))

\* What the platform's resolver makes of one raw identifier.
ResolveOne(id) ==
    IF pKind = "youtube" THEN FilterChannels(NormalizeChannels(<<id>>))
    ELSE FilterUsers(NormalizeUsers(<<id>>))

\* users_arr without the "from:" of its clauses
ResolvedHandles ==
    IF pKind = "youtube" THEN pResolved ELSE [i \in 1..Len(pResolved) |-> pResolved[i][2]]

\* C16: registry resolution. In a call of youtube_search or x_search that got
\* to resolve its identifiers, the resolved list is made of what each raw
\* identifier resolves to, in order, and for each raw identifier: it resolves
\* to at most one handle, which is a real handle of the registry (never
\* "n/a") that contains it case-insensitively; it is dropped when no handle
\* of the column contains it; and it is resolved when a real handle contains
\* it case-insensitively.
C16_RegistryResolution ==
    (pKind \in {"youtube", "x"} /\ pPc \in {"fetching", "trimming", "returned"}
        /\ pReq.ids # <<>>) =>
        /\ ResolvedHandles = Concat([i \in 1..Len(pReq.ids) |-> ResolveOne(pReq.ids[i])])
        /\ \A i \in 1..Len(pReq.ids) :
              LET id == pReq.ids[i]
                  out == ResolveOne(id)
              IN /\ Len(out) <= 1
                 /\ out # <<>> => out[1] \in RealHandles /\ MatchesInsensitive(id, out[1])
                 /\ (\A r \in 1..Len(Data) : ~MatchesInsensitive(id, Handle(Data[r])))
                        => out = <<>>
                 /\ (\E h \in RealHandles : MatchesInsensitive(id, h)) => out # <<>>

\* The clauses of C16 that do not depend on which row matches first: nothing
\* but real handles containing the identifier is output, and an identifier no
\* handle contains is dropped.
OnlyRealHandles ==
    (pKind \in {"youtube", "x"} /\ pPc \in {"fetching", "trimming", "returned"}
        /\ pReq.ids # <<>>) =>
        \A i \in 1..Len(pReq.ids) :
            LET id == pReq.ids[i]
                out == ResolveOne(id)
            IN /\ Len(out) <= 1
               /\ out # <<>> => out[1] \in RealHandles /\ MatchesInsensitive(id, out[1])
               /\ (\A r \in 1..Len(Data) : ~MatchesInsensitive(id, Handle(Data[r])))
                      => out = <<>>

\* C17: a systemic upstream failure that the X client's search raises as an
\* HTTPException reaches the caller of x_search as that error; x_search does
\* not return a result for it.
C17_SystemicFailureSurfaced ==
    (pKind = "x" /\ pFailure = "HTTPException") =>
        pPc = "raised" /\ pError = "HTTPException"

\* x_search left at its validation, before any upstream fetch.
RejectedAtValidation == pPc = "raised" /\ pError = "ValueError" /\ pFetches = 0

\* C22: time-window validation in x_search. A call is rejected with ValueError
\* when period_days is not 1 or more or end_date is malformed, and a call with
\* period_days of 1 or more, a well-formed or absent end_date and users or
\* query present passes validation.
C22_TimeWindowValidation ==
    (pKind = "x" /\ pPc # "idle") =>
        /\ (pReq.period_days < 1 \/ pReq.end_date = "invalid") => RejectedAtValidation
        /\ ( /\ pReq.period_days >= 1
             /\ pReq.end_date # "invalid"
             /\ (pReq.ids # <<>> \/ ~Falsy(pReq.query)) ) => ~RejectedAtValidation

\* The videos task i returns when every enrichment succeeds.
CleanItems(i) ==
    Enrich(ParseHtmlList(pUpstream[i], pReq.cap), pReq.get_descriptions, pReq.get_transcripts)

\* The enrichment failure e left its video in the task's list with the payload
\* absent or empty and the other videos as they are without failure, and the
\* task returned.
DegradedPerItem(e) ==
    /\ pTasks[e.task].done
    /\ LET items == pTasks[e.task].items
           clean == CleanItems(e.task)
       IN /\ Len(items) = Len(clean)
          /\ \A j \in 1..Len(items) : j # e.pos => items[j] = clean[j]
          /\ IF e.part = "long_desc"
             THEN items[e.pos] = [clean[e.pos] EXCEPT !.long_desc = NoneT]
             ELSE \/ items[e.pos] = [clean[e.pos] EXCEPT !.transcript = NoneT]
                  \/ items[e.pos] = [clean[e.pos] EXCEPT !.transcript = 0]

\* C24: enrichment failures degrade per item. When the fetch of the long
\* description or of the transcript of one video fails, the video is still
\* returned with that payload absent or empty, the other videos of the
\* channel are unaffected and the channel's task does not fail.
C24_EnrichmentDegrades == \A e \in pEnrich : DegradedPerItem(e)

\* The failures the code catches degrade per item.
CaughtDegrades ==
    \A e \in pEnrich :
        EnrichCaught([part |-> e.part, error |-> e.error]) => DegradedPerItem(e)

\* A transcript failure that was caught: the call returned both videos of the
\* channel, the second with an empty transcript.
CaughtDegradesWitness ==
    /\ pPc = "returned" /\ Len(pResult) = 2
    /\ \E e \in pEnrich : e.part = "transcript" /\ e.pos = 2 /\ e.error = "ValueError"
    /\ pResult[2].transcript = 0 /\ pResult[1].transcript = TranscriptAt(1)

\* The X handles of the registry that name an account.
RegistryUsers == {Data[r].X : r \in {q \in 1..Len(Data) : Usable(Data[q].X)}}

\* C28: registry restriction of X searches. When a users list is given, every
\* upstream search of x_search carries from: clauses, all of registry
\* handles, and x_search returns tweets of registry authors only, also when
\* none of the users resolves.
C28_RegistryRestriction ==
    (pKind = "x" /\ pReq.ids # <<>>) =>
        /\ pFetches > 0 =>
              /\ pResolved # <<>>
              /\ \A i \in 1..Len(pResolved) : \E u \in RegistryUsers : pResolved[i] = FromClause(u)
        /\ \A i \in 1..Len(pResult) : pResult[i].user \in RegistryUsers

\* The restriction holds whenever at least one of the users resolves.
RestrictedWhenResolved ==
    (pKind = "x" /\ FilterUsers(NormalizeUsers(pReq.ids)) # <<>>) => C28_RegistryRestriction

\* A search for a resolved user returned tweets, all of that user.
RestrictedWhenResolvedWitness ==
    /\ pKind = "x" /\ pPc = "returned" /\ Len(pResult) >= 2
    /\ pResolved = <<FromClause(Str2("c", "d"))>>
    /\ \A i \in 1..Len(pResult) : pResult[i].user = Str2("c", "d")

\* The producer run of caller c for the x_search key ends in this step.
MemoEndStep(c) == cpc[c] = "computing" /\ ckey[c] = XKey /\ cpc'[c] = "got"

\* C29: a failed upstream fetch of x_search is not memoized. When the call
\* whose fetch failed ends, the key is left without entry, so that the next
\* call with the same arguments within the ttl fetches afresh.
C29_FailedFetchNotMemoized ==
    [][ \A c \in Callers :
            (MemoEndStep(c) /\ pFailure # "none") => entries'[XKey].state = "absent" ]_vars

\* A failure that x_search lets through is not memoized.
RaisedNotMemoized ==
    [][ \A c \in Callers :
            (MemoEndStep(c) /\ pPc = "raised") => entries'[XKey].state = "absent" ]_vars

\* A call whose fetch raised an exception x_search does not catch ended, and
\* a later call started the producer again.
RaisedNotMemoizedWitness ==
    /\ runs[XKey] = 2 /\ entries[XKey].state = "absent"
    /\ \E c \in Callers : cpc[c] = "got" /\ cres[c] = [kind |-> "failure", run |-> 1]

(***************************************************************************)
(* Claims about the registry file                                          *)
(***************************************************************************)
\* A reader's get_data() happens in this step.
ReadStep == nReads' = nReads + 1

\* C23: registry refresh is atomic for readers. Every get_data() of a reader
\* gives the complete registry of before the refresh or the complete new
\* one, never a parse error and never an empty or partly written registry.
C23_AtomicRefresh ==
    [][ ReadStep =>
            /\ gResult'.kind = "data"
            /\ gResult'.rows \in (IF uPc = "idle" THEN {combined.rows} ELSE {uOld, uData})
      ]_vars

\* While no refresh is writing, a reader gets the registry the file holds.
ReadsOutsideRefresh ==
    [][ (ReadStep /\ uPc # "writing") => gResult' = [kind |-> "data", rows |-> combined.rows] ]_vars

RECURSIVE SplitLoop(_, _, _)
SplitLoop(text, word, words) ==
    IF text = <<>> THEN Append(words, word)
    ELSE IF Head(text) = "," THEN SplitLoop(Tail(text), <<>>, Append(words, word))
    ELSE SplitLoop(Tail(text), Append(word, Head(text)), words)

\* The names a comma-separated list gives.
NamesGiven(text) == Range(SplitLoop(text, <<>>, <<>>))

\* The sources of the registry read that the request names, in registry order.
NamedSources(data, sources) ==
    SelectSeq([i \in 1..Len(data) |->
                  [Name |-> data[i].Name,
                   Youtube |-> IF data[i].Youtube = NA THEN NoneH ELSE data[i].Youtube,
                   X |-> IF data[i].X = NA THEN NoneH ELSE data[i].X]],
              LAMBDA r : ~sources.given \/ r.Name \in NamesGiven(sources.value))

\* C26: /source-media returns exactly the registry sources whose Name equals
\* one of the comma-separated names given, none merely because its name is a
\* substring of the parameter, each with an 'n/a' handle reported as null;
\* without the parameter it returns every source.
C26_SourceMedia ==
    (eName = "source-media" /\ eStatus = 200) =>
        eBody = NamedSources(gResult.rows, eParams.sources)

\* Without the parameter and for lists of names of sources the endpoint
\* answers as claimed.
SourceMediaByName ==
    ( /\ eName = "source-media" /\ eStatus = 200
      /\ \/ ~eParams.sources.given
         \/ \A n \in NamesGiven(eParams.sources.value) :
                \E i \in 1..Len(Data) : Data[i].Name = n ) =>
        eBody = NamedSources(gResult.rows, eParams.sources)

\* Two sources were named and returned, one of them with null handles.
SourceMediaByNameWitness ==
    /\ eName = "source-media" /\ eStatus = 200 /\ Len(eBody) = 2
    /\ eParams.sources.given
    /\ eBody[2].Youtube = NoneH /\ eBody[1].Youtube # NoneH

(***************************************************************************)
(* Claims about the stored credentials                                     *)
(***************************************************************************)
\* C18: credential webhook. A webhook call whose payload has success false,
\* or no cookies (None or empty), answers 400 and leaves cookies.txt as it
\* was; a call with success true and non-empty cookies answers 200 and
\* cookies.txt then holds exactly the payload's blob.
C18_Webhook ==
    [][wCount' # wCount =>
          IF ~wPayload'.success \/ ~wPayload'.has_cookies \/ wPayload'.cookies = <<>>
          THEN wStatus' = 400 /\ credFile' = credFile
          ELSE wStatus' = 200 /\ credFile' = wPayload'.cookies]_vars

\* A blob was stored by one webhook call and kept by a later, rejected one.
C18_Witness == wCount = 2 /\ wStatus = 400 /\ credFile # StartBlob

RequestSupplies ==
    IF eName = "news" THEN eParams.channels # <<>> \/ eParams.users # <<>>
    ELSE \/ ~Falsy(eParams.query)
         \/ eName = "youtube" /\ eParams.channels # <<>>
         \/ eName = "x" /\ eParams.users # <<>>
         \/ eName = "substack" /\ eParams.publications # <<>>

\* C15: a request that supplies neither is answered 400 ("... must be
\* provided") without any pipeline being called; a request that supplies one
\* of them never gets this 400.
C15_EndpointValidation ==
    eName # "none" =>
        IF RequestSupplies
        THEN ~(eStatus = 400 /\ eDetail = "must be provided")
        ELSE /\ ePc = "done" /\ eStatus = 400 /\ eDetail = "must be provided"
             /\ pKind = "none" /\ pFetches = 0

\* /news was asked with a query alone and answered 400.
C15_Witness ==
    /\ eName = "news" /\ ~Falsy(eParams.query) /\ eParams.channels = <<>>
    /\ eParams.users = <<>> /\ eStatus = 400

\* char_cap minus the length of the serialized tweets, char_cap itself when
\* there are no tweets or no char_cap
BudgetLeft ==
    IF eParams.char_cap.given /\ eTweets # <<>>
    THEN Cap(eParams.char_cap.value - JoinedLen(eTweets))
    ELSE eParams.char_cap

\* C20: sequential budget allocation in /news. The video pipeline is called
\* with, and its trimming step works with, char_cap minus the length of the
\* serialized tweets (char_cap itself when there are no tweets); the tweets
\* are all in the response, before the videos.
C20_NewsBudget ==
    /\ (eName = "news" /\ pKind = "youtube") =>
          /\ pReq.char_cap = BudgetLeft
          /\ tPc # "idle" => tCap = BudgetLeft
    /\ (eName = "news" /\ ePc = "done" /\ eStatus = 200) =>
          /\ Len(eBody) >= Len(eTweets)
          /\ SubSeq(eBody, 1, Len(eTweets)) = eTweets

\* The trimming step of /news works with a positive budget that is smaller
\* than char_cap by the length of the tweets.
C20_Witness ==
    /\ eName = "news" /\ pKind = "youtube" /\ tPc = "filter"
    /\ eTweets # <<>> /\ tCap.given /\ tCap.value > 0
    /\ tCap.value = eParams.char_cap.value - JoinedLen(eTweets)

\* /news called the video pipeline with a remaining budget of zero or less,
\* every channel page was fetched and the videos could be ordered.
NothingLeft ==
    /\ eName = "news" /\ pKind = "youtube"
    /\ BudgetLeft.given /\ BudgetLeft.value <= 0
    /\ AllFetched /\ ~ProcessRaises(Results, pReq.query)

\* C27: in /news a remaining budget of zero or less is still a budget. The
\* request does not fail, and no video is returned beyond the budget: the
\* videos are not returned untrimmed as if no budget had been given.
C27_ZeroBudgetEnforced ==
    NothingLeft =>
        /\ pPc # "raised"
        /\ (ePc = "done" /\ eStatus = 200) =>
              SerializedLen(SubSeq(eBody, Len(eTweets) + 1, Len(eBody))) <= 2

(***************************************************************************)
(* Claims about the tweet pagination                                       *)
(***************************************************************************)
\* A further page is requested in this step.
FurtherPageStep == fNext' = fNext + 1

\* The pauses made are one for each further page requested.
PausedAfterEachPage ==
    /\ fPc \in {"paging", "returned"} => fSleeps = fNext
    /\ fPc = "sleeping" => fSleeps + 1 = fNext

\* The loop goes on exactly while the last page was full and count is not reached.
LoopEndsAsSoonAs ==
    fPc \in {"paging", "returned"} => (fPc = "paging" <=> (fLast = PageSize /\ fLen < fCount))

\* C30: tweet pagination in _fetch_tweets. A further page is requested only
\* while the last page held exactly 20 tweets and fewer than count tweets are
\* accumulated, with a pause after each such page; the loop ends as soon as a
\* page holds a number of tweets other than 20 or count tweets are
\* accumulated, so that a started fetch always ends, and with the paged
\* requests fewer than count + 20 tweets are accumulated.
C30_TweetPagination ==
    /\ [][FurtherPageStep => (fLast = PageSize /\ fLen < fCount)]_vars
    /\ []PausedAfterEachPage
    /\ []LoopEndsAsSoonAs
    /\ [](fNext > 0 => fLen < fCount + PageSize)
    /\ (fPc \in {"searching", "paging", "sleeping"} ~> fPc \in {"returned", "raised"})

\* A fetch that asked for two further pages returned after a short page, with
\* fewer than count tweets.
C30_Witness ==
    /\ fPc = "returned" /\ fNext = 2 /\ fSleeps = 2
    /\ fLast < PageSize /\ fLen < fCount

\* A fetch returned because count tweets were accumulated, the last page full.
C30_WitnessCount == fPc = "returned" /\ fNext > 0 /\ fLast = PageSize /\ fLen >= fCount

====
